---- MODULE Spec2Model ----
(***************************************************************************)
(* Ownership detection of konflux-ci/coverage-dashboard                    *)
(* (package internal/ownership): the Detector and its fallback chain       *)
(*   CODEOWNERS file -> repository teams -> collaborators -> default.      *)
(*                                                                         *)
(* Strings the code inspects character by character (file contents,        *)
(* handles, organization names, slugs, logins) are sequences of one-       *)
(* character strings; strings the code only compares (paths, permission    *)
(* names) are TLA+ strings.                                                *)
(***************************************************************************)
EXTENDS Integers, Sequences, FiniteSets, TLC

VARIABLES
    client,         \* Detector.client: Nil or GitHubClient
    defaultOwner,   \* Detector.defaultOwner
    org,            \* the org argument of the running DetectOwners call
    pc,             \* position of the call in the fallback chain
    pathIdx,        \* detectFromCodeowners: index of the next candidate path
    lastErr,        \* detectFromCodeowners: lastErr
    content,        \* file content the current result was extracted from
    teams,          \* ListTeams response the current result was built from
    collaborators,  \* ListCollaborators response the current result was built from
    result,         \* owners returned by DetectOwners / extractOwnersFromCodeowners
    err,            \* error returned by DetectOwners
    calls,          \* history: the network operations issued, with their outcome
    visited,        \* history: the strategies run, with what each returned
    defaultOwnerArg,\* history: the defaultOwner argument NewDetector was given
    cancelledAt,    \* -1, or the number of requests issued when ctx was cancelled
    modifiedAtEntry,\* history: the caller had altered its path list when the call began
    arrays,         \* the string arrays in memory: codeownersPaths and a returned copy
    returnedRef,    \* the array the caller of GetCodeownersPaths holds, or "none"
    env,            \* the responses the servers of this run can give: "every" or "few"
    parked,         \* the locals of a second DetectOwners call that is not running now
    reposDir,       \* Writer.reposDir: the path split at its slashes
    codeownersFile, \* Writer.codeownersFile: the path split at its slashes
    configs,        \* the configuration files on disk: cleaned path -> YAML document
    codeowners,     \* the CODEOWNERS file: <<>> when absent, else <<its content>>
    writeCalls,     \* history: the Write calls made, with what each returned and left
    startedAbsent,  \* history: there was no CODEOWNERS file before the first Write
    allSucceeded,   \* history: no Write call has returned an error
    written,        \* history: the file names Write(cfg, false) wrote without error
    unparsable,     \* the files on disk that are not YAML: a set of cleaned paths
    DryRun,         \* Config.DryRun: the tool runs without --apply
    environ,        \* the process environment: per variable <<>> (unset) or <<value>>
    runner,         \* what NewRunner returned: <<>> (nil) or <<the Runner>>
    rpc,            \* position of main, then of Run
    runErr,         \* the error NewRunner or Run returned
    repos,          \* Run: repos, what fetchGoRepositories returned
    existingRepos,  \* Runner.existingRepos: the keys that map to true
    newRepos,       \* Run: newRepos
    repoConfigs,    \* Run: repoConfigs
    idx,            \* Run: index of the next element of the loop under way
    openPRs,        \* GitHub: the head branches of the open pull requests
    head,           \* git: the branch checked out
    branches,       \* git: local branch -> the tree of its last commit
    pushed,         \* git: branch of origin -> the tree pushed to it
    pulls,          \* history: the pull requests created, with their reviewers
    log             \* history: in order, what os.ReadDir answered, the git commands
                    \* that change something and the requests of the write client

\* what a running DetectOwners call and its Detector consist of
detectorVars == <<client, defaultOwner, org, pc, pathIdx, lastErr, content, teams,
                  collaborators, result, err, calls, visited, defaultOwnerArg,
                  cancelledAt, modifiedAtEntry>>

\* the package-level path list and what its readers hold
pathVars == <<arrays, returnedRef>>

\* everything outside the Detector and its call
\* the Writer, the files it works on and the record of its calls
writerVars == <<reposDir, codeownersFile, configs, codeowners, writeCalls,
                startedAbsent, allSucceeded, written>>

\* the Runner, its Run, and the git repository and GitHub it works on
runnerVars == <<unparsable, DryRun, environ, runner, rpc, runErr, repos, existingRepos,
                newRepos, repoConfigs, idx, openPRs, head, branches, pushed, pulls, log>>

nonDetectorVars == <<pathVars, env, parked, writerVars, runnerVars>>

vars == <<detectorVars, nonDetectorVars>>

----------------------------------------------------------------------------
(* Bounds of the model *)

\* longest ListTeams response
MaxTeams == 4
\* longest ListCollaborators response
MaxCollabs == 6
\* number of chunks of a fetched file
MaxFileChunks == 2
\* number of handle tokens / separators of a file handed to the extractor alone
MaxTokens == 7
\* Write calls in a run of the Writer
MaxWrites == 2
\* length of the repository name of a single Write call
MaxNameLen == 4
\* number of owners of the configuration of a single Write call
MaxOwners == 3
\* number of repositories GitHub lists for the organization
MaxRepos == 3

----------------------------------------------------------------------------
(* Program constants *)

\* a cap of detectFromTeams that lets a fourth team through
TeamsCapFour == 3 + 1
\* line 122: len(owners) >= 3
TeamsCap == 3
\* a cap that lets a sixth handle through
OwnersCapSix == 5 + 1
\* lines 157 and 207: len(owners) >= 5
OwnersCap == 5

Nil == "nil"
GitHubClient == "client"

\* the backing array of the package variable codeownersPaths
GlobalArray == "codeownersPaths"
\* the array make() allocates in GetCodeownersPaths
FreshArray == "copy"

\* the paths with the one under docs first
codeownersPathsDocsFirst == <<"docs/CODEOWNERS", ".github/CODEOWNERS", "CODEOWNERS">>

codeownersPaths == <<".github/CODEOWNERS", "CODEOWNERS", "docs/CODEOWNERS">>

Vanguard == <<"@","k","o","n","f","l","u","x","-","c","i","/","V","a","n","g","u","a","r","d">>

----------------------------------------------------------------------------
(* Input domains *)

Orgs == { <<"o">>, <<"k","-","c">> }

\* default-owner strings handed to NewDetector: empty, a team handle, and a
\* name written without the at-sign
DefaultOwnerInputs == { <<>>, <<"@","c","/","d">>, <<"k","/","V">> }

Permissions == {"admin", "maintain", "write", "", "Admin"}

TeamSlugs == << <<"t","1">>, <<"t","2">>, <<"t","3">>, <<"t","4">>, <<"t","5">>, <<"t","6">> >>

Logins == << <<"u","1">>, <<"u","2">>, <<"u","3">>, <<"u","4">>, <<"u","5">>,
             <<"u","6">>, <<"u","7">>, <<"u","8">> >>

\* permission maps of a collaborator, each given by the keys that are true
\* (a missing key and a false key read the same: perms["admin"] is false):
\* admin only, maintain without admin, neither
PermissionMaps == { {"admin"}, {"maintain", "push"}, {"push"} }

\* a ListTeams response: teams with distinct slugs, any permissions
TeamListings ==
    UNION { { [i \in 1..n |-> [slug |-> TeamSlugs[i], permission |-> p[i]]] :
                p \in [1..n -> Permissions] } : n \in 0..MaxTeams }

\* a ListCollaborators response: collaborators with distinct logins
CollaboratorListings ==
    UNION { { [i \in 1..n |-> [login |-> Logins[i], permissions |-> p[i]]] :
                p \in [1..n -> PermissionMaps] } : n \in 0..MaxCollabs }

RECURSIVE Flatten(_)
Flatten(ss) == IF ss = <<>> THEN <<>> ELSE Head(ss) \o Flatten(Tail(ss))

\* pieces of a fetched file: handles, a bare at-sign, a slash, a letter,
\* a blank, a comment mark
FileChunks == { <<"@","a">>, <<"@","o","/","t">>, <<"@">>, <<"/">>, <<"b">>,
                <<" ">>, <<"#">> }

FileContents ==
    UNION { { Flatten(cs) : cs \in [1..n -> FileChunks] } : n \in 0..MaxFileChunks }

\* handle tokens of the files handed to the extractor alone
Tokens == << <<"@","a">>, <<"@","b">>, <<"@","o","/","t">>, <<"@","c">>,
             <<"@","d">>, <<"@","e">>, <<"@","f">>, <<"@","g">>, <<"@","h">> >>

MaxOf(S) == IF S = {} THEN 0 ELSE CHOOSE m \in S : \A x \in S : x <= m

RECURSIVE TokenWords(_)
\* words over token numbers (0 is a blank) of length n in which token
\* k+1 first occurs after token k: every file up to the names of its handles
TokenWords(n) ==
    IF n = 0 THEN { <<>> }
    ELSE UNION { { Append(w, x) : x \in 0..(MaxOf({ w[i] : i \in 1..(n - 1) }) + 1) } :
                   w \in TokenWords(n - 1) }

TokenText(w) == Flatten([i \in 1..Len(w) |-> IF w[i] = 0 THEN <<" ">> ELSE Tokens[w[i]]])

TokenFiles == { TokenText(w) : w \in UNION { TokenWords(n) : n \in 0..MaxTokens } }

----------------------------------------------------------------------------
(* Pure functions *)

\* the character class [a-zA-Z0-9_-] of ownerPattern
IdentChars ==
    { "a","b","c","d","e","f","g","h","i","j","k","l","m","n","o","p","q","r",
      "s","t","u","v","w","x","y","z",
      "A","B","C","D","E","F","G","H","I","J","K","L","M","N","O","P","Q","R",
      "S","T","U","V","W","X","Y","Z",
      "0","1","2","3","4","5","6","7","8","9","_","-" }

RECURSIVE IdentRun(_, _)
\* [a-zA-Z0-9_-]* from position i, greedy: the position of its last
\* character, i - 1 when it is empty
IdentRun(s, i) ==
    IF i <= Len(s) /\ s[i] \in IdentChars THEN IdentRun(s, i + 1) ELSE i - 1

\* ownerPattern  @[a-zA-Z0-9_-]+(/[a-zA-Z0-9_-]+)?  anchored at position i:
\* the position of the last character of the match, 0 when there is none
MatchOwnerPattern(s, i) ==
    IF s[i] # "@" THEN 0
    ELSE LET e1 == IdentRun(s, i + 1) IN
         IF e1 < i + 1 THEN 0
         ELSE IF e1 + 1 <= Len(s) /\ s[e1 + 1] = "/" /\ IdentRun(s, e1 + 2) >= e1 + 2
              THEN IdentRun(s, e1 + 2)
              ELSE e1

RECURSIVE FindAllFrom(_, _)
FindAllFrom(s, i) ==
    IF i > Len(s) THEN <<>>
    ELSE LET e == MatchOwnerPattern(s, i) IN
         IF e = 0 THEN FindAllFrom(s, i + 1)
         ELSE <<SubSeq(s, i, e)>> \o FindAllFrom(s, e + 1)

\* ownerPattern.FindAllString(content, -1): the leftmost non-overlapping matches
FindAllString(s) == FindAllFrom(s, 1)

RECURSIVE DedupLoopCountingMatches(_, _, _, _)
\* the loop with the cap counting the matches read, not the owners kept
DedupLoopCountingMatches(matches, i, seen, owners) ==
    IF i > Len(matches) \/ i > OwnersCap THEN owners
    ELSE IF matches[i] \notin seen
         THEN DedupLoopCountingMatches(matches, i + 1, seen \cup {matches[i]},
                                       Append(owners, matches[i]))
         ELSE DedupLoopCountingMatches(matches, i + 1, seen, owners)

RECURSIVE DedupLoop(_, _, _, _)
\* the loop of extractOwnersFromCodeowners over matches[i..]
DedupLoop(matches, i, seen, owners) ==
    IF i > Len(matches) THEN owners
    ELSE IF matches[i] \notin seen
         THEN LET next == Append(owners, matches[i]) IN
              IF Len(next) >= OwnersCap THEN next
              ELSE DedupLoop(matches, i + 1, seen \cup {matches[i]}, next)
         ELSE DedupLoop(matches, i + 1, seen, owners)

extractOwnersFromCodeowners(c) == DedupLoop(FindAllString(c), 1, {}, <<>>)

\* a permission test that ignores the case of the first letter
TeamQualifiesAnyCase(perm) == perm \in {"admin", "maintain", "Admin", "Maintain"}

\* a permission test that forgets "maintain"
TeamQualifiesAdminOnly(perm) == perm = "admin"

\* line 120: perm == "admin" || perm == "maintain"
TeamQualifies(perm) == perm = "admin" \/ perm = "maintain"

\* line 121: fmt.Sprintf("@%s/%s", org, team.GetSlug())
TeamHandle(o, slug) == <<"@">> \o o \o <<"/">> \o slug

RECURSIVE TeamsLoop(_, _, _, _)
\* the loop of detectFromTeams over teams[i..]
TeamsLoop(o, ts, i, owners) ==
    IF i > Len(ts) THEN owners
    ELSE IF TeamQualifies(ts[i].permission)
         THEN LET next == Append(owners, TeamHandle(o, ts[i].slug)) IN
              IF Len(next) >= TeamsCap THEN next
              ELSE TeamsLoop(o, ts, i + 1, next)
         ELSE TeamsLoop(o, ts, i + 1, owners)

\* a filter that takes any collaborator holding some permission
CollaboratorQualifiesAnyPermission(perms) == perms # {}

\* line 155: perms["admin"] || perms["maintain"]
CollaboratorQualifies(perms) == "admin" \in perms \/ "maintain" \in perms

\* line 156: "@" + collab.GetLogin()
CollaboratorHandle(login) == <<"@">> \o login

RECURSIVE CollaboratorsLoop(_, _, _)
\* the loop of detectFromCollaborators over collaborators[i..]
CollaboratorsLoop(cs, i, owners) ==
    IF i > Len(cs) THEN owners
    ELSE IF CollaboratorQualifies(cs[i].permissions)
         THEN LET next == Append(owners, CollaboratorHandle(cs[i].login)) IN
              IF Len(next) >= OwnersCap THEN next
              ELSE CollaboratorsLoop(cs, i + 1, next)
         ELSE CollaboratorsLoop(cs, i + 1, owners)

\* what a strategy hands back: (owners, err)
Return(owners, e) == [owners |-> owners, err |-> e]

\* fetchFile without the test for a missing client
fetchFileAnyClient(c) ==
    { [ok |-> FALSE, content |-> <<>>] }
    \cup { [ok |-> TRUE, content |-> f] : f \in FileContents }

\* fetchFile: its possible results. Without a client it fails before any
\* request; with one, GetContents fails or delivers some content.
fetchFile(c) ==
    IF c = Nil THEN { [ok |-> FALSE, content |-> <<>>] }
    ELSE { [ok |-> FALSE, content |-> <<>>] }
         \cup { [ok |-> TRUE, content |-> f] : f \in FileContents }

\* Repositories.ListTeams: an error or a listing
ListTeams == { [ok |-> FALSE, teams |-> <<>>] }
             \cup { [ok |-> TRUE, teams |-> t] : t \in TeamListings }

\* Repositories.ListCollaborators: an error or a listing
ListCollaborators == { [ok |-> FALSE, collaborators |-> <<>>] }
                     \cup { [ok |-> TRUE, collaborators |-> c] : c \in CollaboratorListings }

\* detectFromTeams after the listing arrived
detectFromTeams(o, r) ==
    IF ~r.ok THEN Return(<<>>, "failed to list teams")
    ELSE LET owners == TeamsLoop(o, r.teams, 1, <<>>) IN
         IF Len(owners) = 0 THEN Return(<<>>, "no teams with admin/maintain permissions found")
         ELSE Return(owners, Nil)

\* detectFromCollaborators after the listing arrived
detectFromCollaborators(r) ==
    IF ~r.ok THEN Return(<<>>, "failed to list collaborators")
    ELSE LET owners == CollaboratorsLoop(r.collaborators, 1, <<>>) IN
         IF Len(owners) = 0
         THEN Return(<<>>, "no collaborators with admin/maintain permissions found")
         ELSE Return(owners, Nil)

\* a test that never lets DetectOwners return early
SucceededNever(r) == FALSE

\* a test that wants two owners or more
SucceededWithTwo(r) == r.err = Nil /\ Len(r.owners) > 1

\* DetectOwners, lines 54, 60, 66: err == nil && len(owners) > 0
Succeeded(r) == r.err = Nil /\ Len(r.owners) > 0

\* a constructor that keeps an empty default owner
NewDetectorNoFallback(c, d) == [client |-> c, defaultOwner |-> d]

\* NewDetector: the Detector's fields
NewDetector(c, d) ==
    [client |-> c, defaultOwner |-> IF d = <<>> THEN Vanguard ELSE d]

\* no second call on this Detector
NoCall == <<>>

\* the few inputs and responses of the runs that follow two calls, or the
\* caller's own path list, at once
FewOrgs == { <<"o">> }

FewFiles ==
    { [ok |-> FALSE, content |-> <<>>],
      [ok |-> TRUE, content |-> <<>>],
      [ok |-> TRUE, content |-> <<"@","a">>] }

FewTeamListings ==
    { [ok |-> FALSE, teams |-> <<>>],
      [ok |-> TRUE, teams |-> <<>>],
      [ok |-> TRUE, teams |-> << [slug |-> TeamSlugs[1], permission |-> "write"] >>],
      [ok |-> TRUE, teams |-> << [slug |-> TeamSlugs[1], permission |-> "admin"] >>] }

FewCollaboratorListings ==
    { [ok |-> FALSE, collaborators |-> <<>>],
      [ok |-> TRUE, collaborators |-> << [login |-> Logins[1], permissions |-> {"push"}] >>],
      [ok |-> TRUE, collaborators |-> << [login |-> Logins[1], permissions |-> {"admin"}] >>] }

\* the inputs and responses this run's environment supplies
Served(all, few) == IF env = "every" THEN all ELSE all \cap few

\* a request made with a context: once the context is cancelled the
\* request fails, whatever the server would have answered
WithContextIgnored(responses) == responses

\* line 111, 146, 177: the requests are made with ctx
WithContext(responses) ==
    IF cancelledAt >= 0 THEN { r \in responses : ~r.ok } ELSE responses

\* a loop that stays on the path whose fetch failed
SamePath(i) == i

\* line 80: for _, path := range codeownersPaths
NextPath(i) == i + 1

----------------------------------------------------------------------------
(* State machine *)

\* the candidate paths as detectFromCodeowners reads them
CandidatePaths == arrays[GlobalArray]

Visit(strategy, r) == Append(visited, [strategy |-> strategy, owners |-> r.owners, err |-> r.err])

Call(op, path, ok, n) == Append(calls, [op |-> op, path |-> path, ok |-> ok, n |-> n])

\* the Detector right after NewDetector, no call running
InitDetector ==
    /\ \E c \in {Nil, GitHubClient}, d \in DefaultOwnerInputs :
          /\ client = NewDetector(c, d).client
          /\ defaultOwner = NewDetector(c, d).defaultOwner
          /\ defaultOwnerArg = d
    /\ pc = "idle"
    /\ org = <<>>

\* TestExtractOwnersFromCodeowners before it hands a content to the extractor
InitTest ==
    /\ client = Nil
    /\ defaultOwner = Vanguard
    /\ defaultOwnerArg = <<>>
    /\ pc = "test"
    /\ org = <<>>

\* the locals of a DetectOwners call that has not begun
InitCall ==
    /\ pathIdx = 1
    /\ lastErr = Nil
    /\ content = <<>>
    /\ teams = <<>>
    /\ collaborators = <<>>
    /\ result = <<>>
    /\ err = Nil
    /\ calls = <<>>
    /\ visited = <<>>
    /\ cancelledAt = -1
    /\ modifiedAtEntry = FALSE

\* lines 13-17: the package variable codeownersPaths, nobody holding a copy
InitCodeownersPaths ==
    /\ arrays = [a \in {GlobalArray, FreshArray} |->
                   IF a = GlobalArray THEN codeownersPaths ELSE <<>>]
    /\ returnedRef = "none"

\* the locals of the running call, as a value that can be set aside
Locals ==
    [org |-> org, pc |-> pc, pathIdx |-> pathIdx, lastErr |-> lastErr,
     content |-> content, teams |-> teams, collaborators |-> collaborators,
     result |-> result, err |-> err, calls |-> calls, visited |-> visited,
     cancelledAt |-> cancelledAt]

\* no Writer in this run
InitNoWriter ==
    /\ reposDir = <<>>
    /\ codeownersFile = <<>>
    /\ configs = <<>>
    /\ codeowners = <<>>
    /\ writeCalls = <<>>
    /\ startedAbsent = TRUE
    /\ allSucceeded = TRUE
    /\ written = {}

\* no Runner in this run
InitNoRunner ==
    /\ unparsable = {}
    /\ DryRun = TRUE
    /\ environ = [GITHUB_READ_TOKEN |-> <<>>, GITHUB_WRITE_TOKEN |-> <<>>]
    /\ runner = <<>>
    /\ rpc = "none"
    /\ runErr = Nil
    /\ repos = <<>>
    /\ existingRepos = {}
    /\ newRepos = <<>>
    /\ repoConfigs = <<>>
    /\ idx = 1
    /\ openPRs = {}
    /\ head = <<>>
    /\ branches = <<>>
    /\ pushed = <<>>
    /\ pulls = <<>>
    /\ log = <<>>

Init ==
    /\ InitDetector \/ InitTest
    /\ InitCall
    /\ InitCodeownersPaths
    /\ env = "every"
    /\ parked = NoCall
    /\ InitNoWriter
    /\ InitNoRunner

\* one Detector, and a caller that inspects the candidate paths
InitPaths ==
    /\ InitDetector
    /\ InitCall
    /\ InitCodeownersPaths
    /\ env = "few"
    /\ parked = NoCall
    /\ InitNoWriter
    /\ InitNoRunner

\* one Detector shared by two callers, neither call begun
InitTwoCalls ==
    /\ InitDetector
    /\ InitCall
    /\ InitCodeownersPaths
    /\ env = "few"
    /\ parked = <<Locals>>
    /\ InitNoWriter
    /\ InitNoRunner

\* DetectOwners is entered with some organization
DetectOwners ==
    /\ pc \in {"idle", "done"}
    /\ \E o \in Served(Orgs, FewOrgs) : org' = o
    /\ pc' = "TryCodeowners"
    /\ pathIdx' = 1
    /\ lastErr' = Nil
    /\ content' = <<>>
    /\ teams' = <<>>
    /\ collaborators' = <<>>
    /\ result' = <<>>
    /\ err' = Nil
    /\ calls' = <<>>
    /\ visited' = <<>>
    /\ cancelledAt' = -1
    /\ modifiedAtEntry' = (returnedRef # "none" /\ arrays[returnedRef] # codeownersPaths)
    /\ UNCHANGED <<client, defaultOwner, defaultOwnerArg>>
    /\ UNCHANGED nonDetectorVars

\* DetectOwners returns (owners, nil)
ReturnOwners(owners) ==
    /\ pc' = "done"
    /\ result' = owners
    /\ err' = Nil

\* one iteration of the loop of detectFromCodeowners: fetch the next
\* candidate path, extract its owners, return them or go on
FetchCodeowners ==
    /\ pc = "TryCodeowners"
    /\ pathIdx <= Len(CandidatePaths)
    /\ \E f \in WithContext(Served(fetchFile(client), FewFiles)) :
          LET owners == IF f.ok THEN extractOwnersFromCodeowners(f.content) ELSE <<>>
              r      == Return(owners, Nil)
          IN  /\ calls' = IF client = Nil THEN calls
                          ELSE Call("GetContents", CandidatePaths[pathIdx], f.ok, Len(owners))
              /\ IF f.ok /\ Len(owners) > 0
                 THEN /\ visited' = Visit("CodeownersFile", r)
                      /\ IF Succeeded(r)
                         THEN /\ ReturnOwners(owners)
                              /\ content' = f.content
                         ELSE /\ pc' = "TryTeams"
                              /\ UNCHANGED <<result, err, content>>
                      /\ UNCHANGED <<pathIdx, lastErr>>
                 ELSE /\ lastErr' = IF f.ok THEN "no valid owners found" ELSE "failed to fetch"
                      /\ pathIdx' = NextPath(pathIdx)
                      /\ UNCHANGED <<pc, result, err, content, visited>>
    /\ UNCHANGED <<client, defaultOwner, defaultOwnerArg, org, teams, collaborators,
                   cancelledAt, modifiedAtEntry>>
    /\ UNCHANGED nonDetectorVars

\* a chain that goes from the file strategy straight to the collaborators
CodeownersExhaustedSkippingTeams ==
    /\ pc = "TryCodeowners"
    /\ pathIdx > Len(CandidatePaths)
    /\ visited' = Visit("CodeownersFile", Return(<<>>, "no CODEOWNERS files found"))
    /\ pc' = "TryCollaborators"
    /\ UNCHANGED <<client, defaultOwner, defaultOwnerArg, org, pathIdx, lastErr, content,
                   teams, collaborators, result, err, calls, cancelledAt, modifiedAtEntry>>
    /\ UNCHANGED nonDetectorVars

\* detectFromCodeowners after its loop: every path was tried, it fails
CodeownersExhausted ==
    /\ pc = "TryCodeowners"
    /\ pathIdx > Len(CandidatePaths)
    /\ LET r == Return(<<>>, IF lastErr # Nil THEN "failed to detect owners from CODEOWNERS"
                                             ELSE "no CODEOWNERS files found")
       IN  /\ visited' = Visit("CodeownersFile", r)
           /\ IF Succeeded(r)
              THEN ReturnOwners(r.owners)
              ELSE /\ pc' = "TryTeams"
                   /\ UNCHANGED <<result, err>>
    /\ UNCHANGED <<client, defaultOwner, defaultOwnerArg, org, pathIdx, lastErr, content,
                   teams, collaborators, calls, cancelledAt, modifiedAtEntry>>
    /\ UNCHANGED nonDetectorVars

\* detectFromTeams and the test DetectOwners makes of what it returns
TryTeams ==
    /\ pc = "TryTeams"
    /\ \E t \in IF client = Nil THEN { [ok |-> FALSE, teams |-> <<>>] } ELSE WithContext(Served(ListTeams, FewTeamListings)) :
          LET r == IF client = Nil THEN Return(<<>>, "GitHub client not configured")
                   ELSE detectFromTeams(org, t)
          IN  /\ calls' = IF client = Nil THEN calls
                          ELSE Call("ListTeams", "", t.ok, Len(r.owners))
              /\ visited' = Visit("Teams", r)
              /\ IF Succeeded(r)
                 THEN /\ ReturnOwners(r.owners)
                      /\ teams' = t.teams
                 ELSE /\ pc' = "TryCollaborators"
                      /\ UNCHANGED <<result, err, teams>>
    /\ UNCHANGED <<client, defaultOwner, defaultOwnerArg, org, pathIdx, lastErr, content,
                   collaborators, cancelledAt, modifiedAtEntry>>
    /\ UNCHANGED nonDetectorVars

\* detectFromCollaborators and the test DetectOwners makes of what it returns
TryCollaborators ==
    /\ pc = "TryCollaborators"
    /\ \E c \in IF client = Nil THEN { [ok |-> FALSE, collaborators |-> <<>>] }
                 ELSE WithContext(Served(ListCollaborators, FewCollaboratorListings)) :
          LET r == IF client = Nil THEN Return(<<>>, "GitHub client not configured")
                   ELSE detectFromCollaborators(c)
          IN  /\ calls' = IF client = Nil THEN calls
                          ELSE Call("ListCollaborators", "", c.ok, Len(r.owners))
              /\ visited' = Visit("Collaborators", r)
              /\ IF Succeeded(r)
                 THEN /\ ReturnOwners(r.owners)
                      /\ collaborators' = c.collaborators
                 ELSE /\ pc' = "UseDefault"
                      /\ UNCHANGED <<result, err, collaborators>>
    /\ UNCHANGED <<client, defaultOwner, defaultOwnerArg, org, pathIdx, lastErr, content,
                   teams, cancelledAt, modifiedAtEntry>>
    /\ UNCHANGED nonDetectorVars

\* a default strategy that puts the missing at-sign into the Detector's own field
UseDefaultNormalising ==
    /\ pc = "UseDefault"
    /\ defaultOwner' = IF Head(defaultOwner) = "@" THEN defaultOwner
                                                   ELSE <<"@">> \o defaultOwner
    /\ visited' = Visit("Default", Return(<<defaultOwner'>>, Nil))
    /\ ReturnOwners(<<defaultOwner'>>)
    /\ UNCHANGED <<client, defaultOwnerArg, org, pathIdx, lastErr, content,
                   teams, collaborators, calls, cancelledAt, modifiedAtEntry>>
    /\ UNCHANGED nonDetectorVars

\* line 71: return []string{d.defaultOwner}, nil
UseDefault ==
    /\ pc = "UseDefault"
    /\ visited' = Visit("Default", Return(<<defaultOwner>>, Nil))
    /\ ReturnOwners(<<defaultOwner>>)
    /\ UNCHANGED <<client, defaultOwner, defaultOwnerArg, org, pathIdx, lastErr, content,
                   teams, collaborators, calls, cancelledAt, modifiedAtEntry>>
    /\ UNCHANGED nonDetectorVars

\* TestExtractOwnersFromCodeowners: the extractor applied to a content
TestExtractOwnersFromCodeowners ==
    /\ pc = "test"
    /\ \E c \in TokenFiles \cup FileContents :
          /\ content' = c
          /\ result' = extractOwnersFromCodeowners(c)
    /\ pc' = "tested"
    /\ UNCHANGED <<client, defaultOwner, defaultOwnerArg, org, pathIdx, lastErr, teams,
                   collaborators, err, calls, visited, cancelledAt, modifiedAtEntry>>
    /\ UNCHANGED nonDetectorVars

\* the caller's context is cancelled while DetectOwners runs
CancelContext ==
    /\ pc \in {"TryCodeowners", "TryTeams", "TryCollaborators", "UseDefault"}
    /\ cancelledAt = -1
    /\ cancelledAt' = Len(calls)
    /\ UNCHANGED <<client, defaultOwner, org, pc, pathIdx, lastErr, content, teams,
                   collaborators, result, err, calls, visited, defaultOwnerArg,
                   modifiedAtEntry>>
    /\ UNCHANGED nonDetectorVars

\* a mutation of the path list that hands out the package variable itself
ReturnTheGlobal == GlobalArray

\* lines 22-24: paths := make(...); copy(paths, codeownersPaths); return paths
ReturnTheCopy == FreshArray

\* GetCodeownersPaths, called by some caller at any moment
GetCodeownersPaths ==
    /\ arrays' = [arrays EXCEPT ![FreshArray] = arrays[GlobalArray]]
    /\ returnedRef' = ReturnTheCopy
    /\ UNCHANGED <<detectorVars, env, parked, writerVars, runnerVars>>

\* what a caller may store into the list it was given
StoredPaths == {"CODEOWNERS", "OWNERS"}

\* the caller overwrites an element of the list GetCodeownersPaths returned
ModifyReturnedPaths ==
    /\ returnedRef # "none"
    /\ \E i \in 1..Len(arrays[returnedRef]), p \in StoredPaths :
          arrays' = [arrays EXCEPT ![returnedRef][i] = p]
    /\ UNCHANGED <<detectorVars, returnedRef, env, parked, writerVars, runnerVars>>

\* the scheduler sets the running call aside and resumes the other one
Switch ==
    /\ parked # NoCall
    /\ parked' = <<Locals>>
    /\ org' = parked[1].org
    /\ pc' = parked[1].pc
    /\ pathIdx' = parked[1].pathIdx
    /\ lastErr' = parked[1].lastErr
    /\ content' = parked[1].content
    /\ teams' = parked[1].teams
    /\ collaborators' = parked[1].collaborators
    /\ result' = parked[1].result
    /\ err' = parked[1].err
    /\ calls' = parked[1].calls
    /\ visited' = parked[1].visited
    /\ cancelledAt' = parked[1].cancelledAt
    /\ UNCHANGED <<client, defaultOwner, defaultOwnerArg, modifiedAtEntry, pathVars, env,
                   writerVars, runnerVars>>

\* the steps of a DetectOwners call
DetectOwnersSteps ==
    \/ DetectOwners
    \/ FetchCodeowners
    \/ CodeownersExhausted
    \/ TryTeams
    \/ TryCollaborators
    \/ UseDefault
    \/ CancelContext

Next ==
    \/ DetectOwners
    \/ FetchCodeowners
    \/ CodeownersExhausted
    \/ TryTeams
    \/ TryCollaborators
    \/ UseDefault
    \/ CancelContext
    \/ TestExtractOwnersFromCodeowners

Spec == Init /\ [][Next]_vars

NextPaths ==
    \/ DetectOwnersSteps
    \/ GetCodeownersPaths
    \/ ModifyReturnedPaths

\* DetectOwners calls, and a caller that reads and alters the path list
SpecPaths == InitPaths /\ [][NextPaths]_vars

NextTwoCalls ==
    \/ DetectOwnersSteps
    \/ Switch

\* two DetectOwners calls interleaved on one Detector
SpecTwoCalls == InitTwoCalls /\ [][NextTwoCalls]_vars


----------------------------------------------------------------------------
(* The configuration Writer: strings *)

\* unicode.IsSpace, for the characters of the inputs
WhiteSpace == {" ", "\t", "\n", "\r"}

RECURSIVE TrimLeft(_)
TrimLeft(s) == IF s # <<>> /\ Head(s) \in WhiteSpace THEN TrimLeft(Tail(s)) ELSE s

RECURSIVE TrimRight(_)
TrimRight(s) ==
    IF s # <<>> /\ s[Len(s)] \in WhiteSpace THEN TrimRight(SubSeq(s, 1, Len(s) - 1)) ELSE s

\* strings.TrimSpace
TrimSpace(s) == TrimRight(TrimLeft(s))

\* strings.HasPrefix, strings.HasSuffix
HasPrefix(s, prefix) == Len(s) >= Len(prefix) /\ SubSeq(s, 1, Len(prefix)) = prefix
HasSuffix(s, suffix) ==
    Len(s) >= Len(suffix) /\ SubSeq(s, Len(s) - Len(suffix) + 1, Len(s)) = suffix

RECURSIVE SplitFrom(_, _, _)
\* the pieces of s between the occurrences of the character sep, cur being
\* the piece under way: a string without sep is one piece, "" included
SplitFrom(s, sep, cur) ==
    IF s = <<>> THEN <<cur>>
    ELSE IF Head(s) = sep THEN <<cur>> \o SplitFrom(Tail(s), sep, <<>>)
    ELSE SplitFrom(Tail(s), sep, Append(cur, Head(s)))

\* strings.Split(s, sep) for a separator of one character
Split(s, sep) == SplitFrom(s, sep, <<>>)

RECURSIVE JoinStrings(_, _)
\* strings.Join(elems, sep)
JoinStrings(elems, sep) ==
    IF elems = <<>> THEN <<>>
    ELSE IF Len(elems) = 1 THEN elems[1]
    ELSE elems[1] \o sep \o JoinStrings(Tail(elems), sep)

\* strings.SplitN(line, "#", 2)[0]: the line up to its first "#"
BeforeComment(line) == Split(line, "#")[1]

\* the class [a-zA-Z0-9_-] of repoNamePattern
RepoNameChars ==
    {"a","b","c","d","e","f","g","h","i","j","k","l","m","n","o","p","q","r","s","t",
     "u","v","w","x","y","z",
     "A","B","C","D","E","F","G","H","I","J","K","L","M","N","O","P","Q","R","S","T",
     "U","V","W","X","Y","Z",
     "0","1","2","3","4","5","6","7","8","9","_","-"}

\* a pattern whose class has the dot as well
MatchDotted(name) ==
    LET parts == Split(name, "/")
    IN  /\ Len(parts) = 2
        /\ \A k \in 1..2 :
              parts[k] # <<>>
                  /\ \A i \in 1..Len(parts[k]) : parts[k][i] \in RepoNameChars \cup {"."}

\* repoNamePattern.MatchString: ^[a-zA-Z0-9_-]+/[a-zA-Z0-9_-]+$
MatchString(name) ==
    LET parts == Split(name, "/")
    IN  /\ Len(parts) = 2
        /\ \A k \in 1..2 :
              parts[k] # <<>> /\ \A i \in 1..Len(parts[k]) : parts[k][i] \in RepoNameChars

YamlExt == <<".","y","a","m","l">>

\* a file name made of the organization
getFilenameOfOrg(repoName) == Split(repoName, "/")[1] \o YamlExt

\* getFilename: parts[1] + ".yaml", the part after the slash
getFilename(repoName) == Split(repoName, "/")[2] \o YamlExt

(* The configuration Writer: paths *)

\* filepath.Clean of a relative path given by its elements: empty elements
\* (a doubled or trailing slash) and "." go; <<>> stands for "."
Clean(path) == SelectSeq(path, LAMBDA e : e # <<>> /\ e # <<".">>)

\* filepath.Dir: all but the last element, cleaned; the last element of a
\* path that ends with a slash is the empty one
Dir(path) == IF path = <<>> THEN <<>> ELSE Clean(SubSeq(path, 1, Len(path) - 1))

\* filepath.Join
Join(path, more) == Clean(path \o more)

DiscoveredRepos == <<"d","i","s","c","o","v","e","r","e","d","-","r","e","p","o","s">>

\* lines 56-60: the path the configuration is written to
TargetPath(dir, filename, dryRun) ==
    IF dryRun THEN Join(Join(Dir(dir), <<DiscoveredRepos>>), <<filename>>)
    ELSE Join(dir, <<filename>>)

\* path is the directory dir or lies below it
Under(path, dir) ==
    Len(path) >= Len(Clean(dir)) /\ SubSeq(path, 1, Len(Clean(dir))) = Clean(dir)

(* The configuration Writer: the code *)

RECURSIVE NormalizeLoopKeepingDuplicates(_, _, _, _)
\* a loop that forgets what it has seen
NormalizeLoopKeepingDuplicates(owners, i, seen, normalized) ==
    IF i > Len(owners) THEN normalized
    ELSE LET trimmed == TrimSpace(owners[i])
             owner   == IF HasPrefix(trimmed, <<"@">>) THEN trimmed ELSE <<"@">> \o trimmed
         IN  IF trimmed = <<>>
             THEN NormalizeLoopKeepingDuplicates(owners, i + 1, seen, normalized)
             ELSE NormalizeLoopKeepingDuplicates(owners, i + 1, seen,
                                                 Append(normalized, owner))

RECURSIVE NormalizeLoop(_, _, _, _)
\* lines 155-169: the loop of normalizeOwners from owner i on
NormalizeLoop(owners, i, seen, normalized) ==
    IF i > Len(owners) THEN normalized
    ELSE LET trimmed == TrimSpace(owners[i])
             owner   == IF HasPrefix(trimmed, <<"@">>) THEN trimmed ELSE <<"@">> \o trimmed
         IN  IF trimmed = <<>> THEN NormalizeLoop(owners, i + 1, seen, normalized)
             ELSE IF owner \in seen THEN NormalizeLoop(owners, i + 1, seen, normalized)
             ELSE NormalizeLoop(owners, i + 1, seen \cup {owner}, Append(normalized, owner))

\* lines 152-171
normalizeOwners(owners) == NormalizeLoop(owners, 1, {}, <<>>)

\* lines 144-149
matchesPattern(line, pattern) ==
    LET trimmed == TrimSpace(BeforeComment(line))
    IN  trimmed = pattern \/ HasPrefix(trimmed, pattern \o <<" ">>)

\* lines 174-180: the content writeCodeowners writes
writeCodeowners(lines) ==
    LET joined == JoinStrings(lines, <<"\n">>)
    IN  IF HasSuffix(joined, <<"\n">>) THEN joined ELSE joined \o <<"\n">>

ReposPrefix == <<"/","r","e","p","o","s","/">>

\* an update that always adds its entry at the end
updateCodeownersAppending(filename, owners, file) ==
    [err  |-> Nil,
     file |-> << (IF file = <<>> THEN <<>> ELSE file[1])
                 \o ReposPrefix \o filename \o <<" ">>
                 \o JoinStrings(normalizeOwners(owners), <<" ">>) \o <<"\n">> >>]

\* an update that takes the owners as they come, none included
updateCodeownersUnchecked(filename, owners, file) ==
    [err  |-> Nil,
     file |-> << writeCodeowners(
                    Append(IF file = <<>> THEN <<>> ELSE Split(file[1], "\n"),
                           ReposPrefix \o filename \o <<" ">>
                               \o JoinStrings(normalizeOwners(owners), <<" ">>))) >>]

\* lines 96-141: updateCodeowners on the CODEOWNERS file as it is (<<>> when
\* absent); the error it returns and the file it leaves
updateCodeowners(filename, owners, file) ==
    LET normalizedOwners == normalizeOwners(owners)
        lines    == IF file = <<>> THEN <<>> ELSE Split(file[1], "\n")
        pattern  == ReposPrefix \o filename
        newEntry == pattern \o <<" ">> \o JoinStrings(normalizedOwners, <<" ">>)
        hits     == { i \in 1..Len(lines) : matchesPattern(lines[i], pattern) }
        first    == CHOOSE i \in hits : \A j \in hits : i <= j
        spaced   == IF Len(lines) > 0 /\ lines[Len(lines)] # <<>>
                    THEN Append(lines, <<>>) ELSE lines
    IN  IF Len(owners) = 0 THEN [err |-> "no owners specified", file |-> file]
        ELSE IF Len(normalizedOwners) = 0
        THEN [err |-> "all owners were invalid after normalization", file |-> file]
        ELSE IF hits # {}
        THEN [err |-> Nil, file |-> << writeCodeowners([lines EXCEPT ![first] = newEntry]) >>]
        ELSE [err |-> Nil, file |-> << writeCodeowners(Append(spaced, newEntry)) >>]

\* yaml.Marshal of a RepositoryConfig (lines 20-25): the keys of the tags,
\* Owners left out
Marshal(cfg) ==
    [name |-> cfg.Name, exclude_dirs |-> cfg.ExcludeDirs, exclude_files |-> cfg.ExcludeFiles]

\* yaml.Unmarshal into a RepositoryConfig: Owners stays nil
Unmarshal(data) ==
    [Name |-> data.name, ExcludeDirs |-> data.exclude_dirs,
     ExcludeFiles |-> data.exclude_files, Owners |-> <<>>]

\* os.WriteFile on the configuration files
WriteFile(fs, path, data) ==
    [q \in DOMAIN fs \cup {path} |-> IF q = path THEN data ELSE fs[q]]

\* lines 183-197
LoadRepositoryConfig(dir, filename) ==
    LET path == Join(dir, <<filename>>)
        none == [Name |-> <<>>, ExcludeDirs |-> <<>>, ExcludeFiles |-> <<>>, Owners |-> <<>>]
    IN  IF path \in unparsable THEN [cfg |-> none, err |-> "failed to parse YAML"]
        ELSE IF path \in DOMAIN configs
        THEN [cfg |-> Unmarshal(configs[path]), err |-> Nil]
        ELSE [cfg |-> none, err |-> "failed to read file"]

\* lines 42-86: Write on the files as they are; the error it returns and the
\* files it leaves
Write(cfg, dryRun) ==
    IF TrimSpace(cfg.Name) = <<>>
    THEN [err |-> "repository name cannot be empty",
          configs |-> configs, codeowners |-> codeowners]
    ELSE IF ~MatchString(cfg.Name)
    THEN [err |-> "invalid repository name",
          configs |-> configs, codeowners |-> codeowners]
    ELSE LET filename   == getFilename(cfg.Name)
             targetPath == TargetPath(reposDir, filename, dryRun)
             stored     == WriteFile(configs, targetPath, Marshal(cfg))
             updated    == updateCodeowners(filename, cfg.Owners, codeowners)
         IN  IF dryRun
             THEN [err |-> Nil, configs |-> stored, codeowners |-> codeowners]
             ELSE IF updated.err # Nil
             THEN [err |-> "failed to update CODEOWNERS: " \o updated.err,
                   configs |-> stored, codeowners |-> codeowners]
             ELSE [err |-> Nil, configs |-> stored, codeowners |-> updated.file]

(* The configuration Writer: inputs *)

Repos == <<"r","e","p","o","s">>
Codeowners == <<"C","O","D","E","O","W","N","E","R","S">>
Tmp == <<"t">>

\* NewWriter(reposDir, codeownersFile): "repos" and "CODEOWNERS" (the flag
\* defaults), the same under a directory, and "repos/" with its slash
WriterSettings ==
    { [reposDir |-> <<Repos>>,       codeownersFile |-> <<Codeowners>>],
      [reposDir |-> <<Tmp, Repos>>,  codeownersFile |-> <<Tmp, Codeowners>>],
      [reposDir |-> <<Repos, <<>>>>, codeownersFile |-> <<Codeowners>>] }

RepoA == <<"o","/","a">>
RepoB == <<"o","/","b">>
RepoAOfP == <<"p","/","a">>

\* the repository names the calls are made with: three that are valid, two
\* of them with the same repository part, and two that are not
RepoNames == { RepoA, RepoB, RepoAOfP, <<>>, <<"o","/","a",".","b">> }

\* the Owners lists: none, one handle, owners to trim, prefix and
\* deduplicate, and a blank one
OwnerLists ==
    { <<>>, << <<"@","t">> >>, << <<" ","u"," ">>, <<"@","t">>, <<"u">> >>, << <<" ">> >> }

\* the configurations handed to Write
RepositoryConfigs ==
    { [Name |-> n, ExcludeDirs |-> <<>>, ExcludeFiles |-> <<>>, Owners |-> o] :
          n \in {RepoA, RepoB, RepoAOfP}, o \in OwnerLists }
    \cup
    { [Name |-> n, ExcludeDirs |-> <<"vendor/", "hack/">>, ExcludeFiles |-> <<"zz.go">>,
       Owners |-> << <<"@","t">> >>] : n \in RepoNames }

\* a CODEOWNERS content with an entry for a.yaml that ends in a comment:
\* "/repos/a.yaml @old # c", "* @x"
CodeownersWithEntry ==
    <<"/","r","e","p","o","s","/","a",".","y","a","m","l"," ","@","o","l","d"," ","#"," ","c","\n","*"," ","@","x","\n">>

\* a CODEOWNERS content whose lines only look like an entry for a.yaml:
\* "#/repos/a.yaml @z", "/repos/a.yaml.bak @z"
CodeownersWithLookalikes ==
    <<"#","/","r","e","p","o","s","/","a",".","y","a","m","l"," ","@","z","\n","/","r","e","p","o","s","/","a",".","y","a","m","l",".","b","a","k"," ","@","z","\n">>

\* the CODEOWNERS file before the first call. Under the flag defaults: none,
\* an empty one, "* @x" without a final newline, one with an entry, one with
\* look-alikes; under the other settings: none, or the one with an entry
InitialCodeowners(w) ==
    IF w.reposDir = <<Repos>>
    THEN { <<>>, << <<>> >>, << <<"*"," ","@","x">> >>, <<CodeownersWithEntry>>,
           <<CodeownersWithLookalikes>> }
    ELSE { <<>>, <<CodeownersWithEntry>> }

(* The configuration Writer: state machine *)

\* a Writer right after NewWriter, and the files it finds
InitWriter ==
    /\ \E w \in WriterSettings :
          /\ reposDir = w.reposDir
          /\ codeownersFile = w.codeownersFile
          /\ codeowners \in InitialCodeowners(w)
    /\ configs = IF codeowners = <<CodeownersWithEntry>>
                 THEN WriteFile(<<>>, Join(reposDir, <<getFilename(RepoA)>>),
                                [name |-> RepoA, exclude_dirs |-> <<"old/">>,
                                 exclude_files |-> <<>>])
                 ELSE <<>>
    /\ writeCalls = <<>>
    /\ startedAbsent = (codeowners = <<>>)
    /\ allSucceeded = TRUE
    /\ written = {}

\* no Detector call in this run
InitNoDetector ==
    /\ client = Nil
    /\ defaultOwner = Vanguard
    /\ defaultOwnerArg = <<>>
    /\ pc = "idle"
    /\ org = <<>>
    /\ InitCall
    /\ InitCodeownersPaths
    /\ env = "few"
    /\ parked = NoCall

InitWriterAlone == InitNoDetector /\ InitWriter /\ InitNoRunner

\* Write(cfg, dryRun) is called and returns
WriteReturns(cfg, dryRun) ==
    /\ \E w \in {Write(cfg, dryRun)} :
          /\ configs' = w.configs
          /\ codeowners' = w.codeowners
          /\ writeCalls' = Append(writeCalls, [cfg |-> cfg, dryRun |-> dryRun,
                                               err |-> w.err, codeowners |-> w.codeowners])
          /\ allSucceeded' = (allSucceeded /\ w.err = Nil)
          /\ written' = IF w.err = Nil /\ ~dryRun
                        THEN written \cup {getFilename(cfg.Name)} ELSE written
    /\ UNCHANGED <<reposDir, codeownersFile, startedAbsent>>

\* a caller calls Write
CallWrite ==
    /\ Len(writeCalls) < MaxWrites
    /\ \E cfg \in RepositoryConfigs, dryRun \in BOOLEAN : WriteReturns(cfg, dryRun)
    /\ UNCHANGED <<detectorVars, pathVars, env, parked, runnerVars>>

NextWriter == CallWrite

\* a Writer and the Write calls made on it
SpecWriter == InitWriterAlone /\ [][NextWriter]_vars

(* The configuration Writer: one call, with any name or any owners *)

\* the characters of the names: a letter, a digit, the underscore, the
\* hyphen, the slash, the dot and the backslash
NameAlphabet == {"a", "0", "_", "-", "/", ".", "\\"}

\* every string of at most n characters of NameAlphabet
NamesUpTo(n) == UNION { [1..k -> NameAlphabet] : k \in 0..n }

\* names with white space in them, one with three parts, one in upper case:
\* " ", "o/a\n", " o/a", "o /a", "a/b/c", "O-1/A_Z"
OtherNames ==
    { <<" ">>, <<"o","/","a","\n">>, <<" ","o","/","a">>, <<"o"," ","/","a">>,
      <<"a","/","b","/","c">>, <<"O","-","1","/","A","_","Z">> }

\* the owners of the lists: "@t", "t", " t ", "", " ", "@u", "\t@u"
OwnerStrings ==
    { <<"@","t">>, <<"t">>, <<" ","t"," ">>, <<>>, <<" ">>, <<"@","u">>, <<"\t","@","u">> }

\* every list of at most n of them
OwnerListsUpTo(n) == UNION { [1..k -> OwnerStrings] : k \in 0..n }

\* the configurations of the single call: any name with one owner, or the
\* name o/a with any owners
AnyConfigs ==
    { [Name |-> n, ExcludeDirs |-> <<>>, ExcludeFiles |-> <<>>, Owners |-> << <<"@","t">> >>] :
          n \in NamesUpTo(MaxNameLen) \cup OtherNames }
    \cup
    { [Name |-> RepoA, ExcludeDirs |-> <<>>, ExcludeFiles |-> <<>>, Owners |-> o] :
          o \in OwnerListsUpTo(MaxOwners) }

\* a Writer made with the flag defaults
InitWriteOnce == InitWriterAlone /\ reposDir = <<Repos>>

\* the one call of Write
CallWriteOnce ==
    /\ writeCalls = <<>>
    /\ \E cfg \in AnyConfigs, dryRun \in BOOLEAN : WriteReturns(cfg, dryRun)
    /\ UNCHANGED <<detectorVars, pathVars, env, parked, runnerVars>>

NextWriteOnce == CallWriteOnce

\* a Writer and one Write call on it
SpecWriteOnce == InitWriteOnce /\ [][NextWriteOnce]_vars

----------------------------------------------------------------------------
(* The discovery Runner: NewRunner and the steps of Run *)

\* Config.Organization of the runs
Organization == <<"o">>

\* what an environment variable can be: unset, set to "", set to a token
TokenSettings == { <<>>, <<"">>, <<"t">> }

\* os.Getenv: the value of the variable, "" when it is not set
Getenv(name) == IF environ[name] = <<>> THEN "" ELSE environ[name][1]

\* lines 39-49, 54-65: the client made for a token
NewClient(token) == IF token # "" THEN "authenticated" ELSE "anonymous"

\* a constructor that never asks for the write token
NewRunnerUnchecked(cfgDryRun) ==
    [runner |-> << [githubClient |-> NewClient(Getenv("GITHUB_READ_TOKEN")),
                    writeClient  |-> NewClient(Getenv("GITHUB_WRITE_TOKEN"))] >>,
     err    |-> Nil]

\* lines 35-74: the Runner and the error NewRunner returns
NewRunner(cfgDryRun) ==
    LET readToken  == Getenv("GITHUB_READ_TOKEN")
        writeToken == Getenv("GITHUB_WRITE_TOKEN")
    IN  IF writeToken = "" /\ ~cfgDryRun
        THEN [runner |-> <<>>,
              err    |-> "GITHUB_WRITE_TOKEN is required for --apply (needed for creating PRs)"]
        ELSE [runner |-> << [githubClient |-> NewClient(readToken),
                             writeClient  |-> NewClient(writeToken)] >>,
              err    |-> Nil]

\* the repositories of the organization: three Go repositories, one more
\* with a dot in its name (f.g), an archived one, one in another language
RepoPool ==
    { [name |-> <<"a">>, language |-> "Go",     archived |-> FALSE],
      [name |-> <<"b">>, language |-> "Go",     archived |-> FALSE],
      [name |-> <<"e">>, language |-> "Go",     archived |-> FALSE],
      [name |-> <<"f",".","g">>, language |-> "Go", archived |-> FALSE],
      [name |-> <<"c">>, language |-> "Go",     archived |-> TRUE],
      [name |-> <<"d">>, language |-> "Python", archived |-> FALSE] }

\* Repositories.ListByOrg, its pages put together: at most MaxRepos
\* repositories, none of them twice
Listings ==
    { l \in UNION { [1..n -> RepoPool] : n \in 0..MaxRepos } :
          \A i, j \in 1..Len(l) : i # j => l[i] # l[j] }

\* a selection by language alone
GoRepositoriesWithArchived(listing) ==
    SelectSeq(listing, LAMBDA repo : repo.language = "Go")

\* lines 180-184: the Go repositories that are not archived, in order
GoRepositories(listing) ==
    SelectSeq(listing, LAMBDA repo : repo.language = "Go" /\ ~repo.archived)

\* fmt.Sprintf("%s/%s", r.config.Organization, repo.GetName())
FullName(repo) == Organization \o <<"/">> \o repo.name

\* the entries os.ReadDir gives for the repos directory: the paths of the
\* files right in it (an entry for a directory is passed over at line 207)
FileEntries ==
    { path \in DOMAIN configs \cup unparsable :
          Under(path, reposDir) /\ Len(path) = Len(Clean(reposDir)) + 1 }

\* a load that stops at the first file it cannot parse
loadExistingReposStrict(readDir) ==
    IF readDir = "not exist" THEN [existingRepos |-> {}, err |-> Nil]
    ELSE IF readDir = "denied" \/ FileEntries \cap unparsable # {}
    THEN [existingRepos |-> {}, err |-> "failed to load"]
    ELSE [existingRepos |->
              { LoadRepositoryConfig(reposDir, path[Len(path)]).cfg.Name : path \in FileEntries },
          err |-> Nil]

\* lines 195-221: the tracked set and the error of loadExistingRepos, for
\* what os.ReadDir answers ("ok", "not exist", or "denied" for another error)
loadExistingRepos(readDir) ==
    IF readDir = "not exist" THEN [existingRepos |-> {}, err |-> Nil]
    ELSE IF readDir = "denied" THEN [existingRepos |-> {}, err |-> "permission denied"]
    ELSE [existingRepos |->
              { LoadRepositoryConfig(reposDir, path[Len(path)]).cfg.Name :
                    path \in { q \in FileEntries :
                                  LoadRepositoryConfig(reposDir, q[Len(q)]).err = Nil } },
          err |-> Nil]

\* what os.ReadDir can answer for the repos directory as it is
ReadDirAnswers ==
    IF \E path \in DOMAIN configs \cup unparsable : Under(path, reposDir)
    THEN {"ok", "denied"}
    ELSE {"ok", "not exist", "denied"}

\* a filter that keeps the tracked repositories
filterTrackedRepositories(all, existing) ==
    SelectSeq(all, LAMBDA repo : FullName(repo) \in existing)

\* lines 223-232: existing is the set of keys of r.existingRepos
filterNewRepositories(all, existing) ==
    SelectSeq(all, LAMBDA repo : FullName(repo) \notin existing)

\* lines 247-260, 262-268: the patterns every configuration gets
excludeDirs ==
    <<"vendor/", ".github/", ".tekton/", "hack/", "proto/", "test/", "tests/",
      "integration-tests/", "/fake(/|$)", "/mock(s)?(/|$)", "/e2e(-tests)?(/|$)", "docs/">>
excludeFiles ==
    <<"zz_generated.deepcopy.go", "openapi_generated.go", "*.pb.go", "mock_*.go", "*_mock.go">>

\* what DetectOwners can return for a repository: handles and no error, or
\* an error
DetectOwnersReturns(repo) ==
    IF repo.name = <<"a">>
    THEN { [owners |-> << <<"@","u">>, <<"@","o","/","t">>, <<"@","v">> >>, err |-> Nil],
           [owners |-> <<>>, err |-> "all strategies failed"] }
    ELSE IF repo.name = <<"b">>
    THEN { [owners |-> << <<"@","o","/","s">>, <<"@","w">>, <<"@","o","/","t">> >>, err |-> Nil] }
    ELSE { [owners |-> << <<"@","o","/","s">> >>, err |-> Nil] }

\* an analysis that keeps what DetectOwners returned with its error
analyzeRepositoryWithoutDefault(repo, detected) ==
    [Name         |-> FullName(repo),
     ExcludeDirs  |-> excludeDirs,
     ExcludeFiles |-> excludeFiles,
     Owners       |-> detected.owners]

\* lines 234-276: analyzeRepository, for what DetectOwners returned
analyzeRepository(repo, detected) ==
    [Name         |-> FullName(repo),
     ExcludeDirs  |-> excludeDirs,
     ExcludeFiles |-> excludeFiles,
     Owners       |-> IF detected.err # Nil THEN <<Vanguard>> ELSE detected.owners]

(* The pull request Creator, and git as it uses it *)

Main == <<"m","a","i","n">>
AddRepo == <<"a","d","d","-","r","e","p","o","/">>

\* filepath.Base: the last element of the path, "." for the empty path
Base(path) ==
    LET parts == SelectSeq(Split(path, "/"), LAMBDA e : e # <<>>)
    IN  IF parts # <<>> THEN parts[Len(parts)]
        ELSE IF path = <<>> THEN <<".">> ELSE <<"/">>

\* extractRepoName
extractRepoName(fullName) ==
    LET parts == Split(fullName, "/")
    IN  IF Len(parts) = 2 THEN Base(parts[2]) ELSE Base(fullName)

\* strings.TrimPrefix(owner, "@")
TrimPrefix(s, prefix) == IF HasPrefix(s, prefix) THEN SubSeq(s, Len(prefix) + 1, Len(s)) ELSE s

\* an extraction that leaves the handles as they are
extractReviewersWithAt(owners) == SelectSeq(owners, LAMBDA owner : owner # <<>>)

\* extractReviewers: the owners without their "@", the empty ones left out
extractReviewers(owners) ==
    SelectSeq([i \in 1..Len(owners) |-> TrimPrefix(owners[i], <<"@">>)],
              LAMBDA reviewer : reviewer # <<>>)

\* strings.Contains(reviewer, "/")
IsTeamReviewer(reviewer) == \E i \in 1..Len(reviewer) : reviewer[i] = "/"

\* addReviewers: the ReviewersRequest it sends, <<>> when it sends none
addReviewers(owners) ==
    LET reviewers == extractReviewers(owners)
        ofTeams   == SelectSeq(reviewers,
                               LAMBDA r : IsTeamReviewer(r) /\ Len(Split(r, "/")) = 2)
    IN  IF Len(reviewers) = 0 THEN <<>>
        ELSE << [Reviewers     |-> SelectSeq(reviewers, LAMBDA r : ~IsTeamReviewer(r)),
                 TeamReviewers |-> [i \in 1..Len(ofTeams) |-> Split(ofTeams[i], "/")[2]]] >>

\* the file at a path of a tree: <<>> when there is none, else <<its content>>
At(fs, path) == IF path \in DOMAIN fs THEN <<fs[path]>> ELSE <<>>

\* a tree with the file at path set to what file says
WithFile(fs, path, file) ==
    [q \in (DOMAIN fs \ {path}) \cup (IF file = <<>> THEN {} ELSE {path}) |->
         IF q = path THEN file[1] ELSE fs[q]]

\* the Writer's CODEOWNERS file is the one at the root of the repository
AtRoot == Clean(codeownersFile) = <<Codeowners>>

\* the CODEOWNERS file at the root of the working tree: the Writer's, or one
\* no Write touches
RootCodeowners == IF AtRoot THEN codeowners ELSE << <<"*"," ","@","x","\n">> >>

\* the paths whose file differs between two trees
Differing(from, to) ==
    { path \in DOMAIN from.configs \cup DOMAIN to.configs :
          At(from.configs, path) # At(to.configs, path) }

\* git checkout from the commit `from` to the commit `to` over the working
\* files of g: a file that differs between the two and was changed or
\* created locally stops it; else the files that differ become those of
\* `to`, the others stay as they are
Checkout(g, to) ==
    LET from == g.branches[g.head]
        tree == g.branches[to]
    IN  IF \/ \E path \in Differing(from, tree) : At(g.configs, path) # At(from.configs, path)
           \/ from.codeowners # tree.codeowners /\ g.codeowners # from.codeowners
        THEN [g EXCEPT !.err = "checkout failed"]
        ELSE [g EXCEPT !.head = to,
                       !.configs =
                           [q \in (DOMAIN g.configs \ Differing(from, tree))
                                      \cup (Differing(from, tree) \cap DOMAIN tree.configs) |->
                                IF q \in Differing(from, tree) THEN tree.configs[q]
                                ELSE g.configs[q]],
                       !.codeowners = IF from.codeowners # tree.codeowners
                                      THEN tree.codeowners ELSE g.codeowners]

\* a branch made from the commit checked out, whatever it is
createBranchInPlace(g, branchName) ==
    [g EXCEPT !.head = branchName,
              !.branches = [b \in DOMAIN g.branches \cup {branchName} |-> g.branches[g.head]],
              !.log = Append(g.log, [op |-> "checkout -b", arg |-> branchName])]

\* go.mod lines 121-161: createBranch. origin's base branch is where the
\* local one is, and the fetch succeeds
createBranch(g, branchName) ==
    IF branchName \in DOMAIN g.branches /\ g.head = branchName
    THEN [g EXCEPT !.err = "failed to create branch"]
    ELSE LET deleted == [g EXCEPT !.branches =
                            [b \in DOMAIN g.branches \ {branchName} |-> g.branches[b]]]
             onBase  == Checkout(deleted, Main)
         IN  IF onBase.err # Nil THEN [onBase EXCEPT !.err = "failed to create branch"]
             ELSE [onBase EXCEPT
                      !.head = branchName,
                      !.branches = [b \in DOMAIN onBase.branches \cup {branchName} |->
                                        onBase.branches[Main]],
                      !.log = Append(onBase.log, [op |-> "checkout -b", arg |-> branchName])]

\* go.mod lines 163-182: commitChanges. git add is run on the two paths (the
\* log keeps them); git add of a path that is neither in the working tree
\* nor in the commit checked out fails, and so does a commit that changes
\* nothing
commitChanges(g, configFile) ==
    LET tree   == g.branches[g.head]
        staged == [configs    |-> WithFile(tree.configs, configFile, At(g.configs, configFile)),
                   codeowners |-> g.codeowners]
        added  == [g EXCEPT !.log = Append(g.log, [op |-> "add",
                                                   arg |-> <<configFile, <<Codeowners>>>>])]
    IN  IF g.err # Nil THEN g
        ELSE IF \/ At(g.configs, configFile) = <<>> /\ At(tree.configs, configFile) = <<>>
                \/ g.codeowners = <<>> /\ tree.codeowners = <<>>
                \/ staged = tree
        THEN [added EXCEPT !.err = "failed to commit changes"]
        ELSE [added EXCEPT !.branches[g.head] = staged,
                           !.log = Append(added.log, [op |-> "commit", arg |-> g.head])]

\* go.mod lines 99-102: git push -u origin <branch> --force
push(g, pushOK) ==
    IF g.err # Nil THEN g
    ELSE IF ~pushOK THEN [g EXCEPT !.err = "failed to push branch"]
    ELSE [g EXCEPT !.pushed = [b \in DOMAIN g.pushed \cup {g.head} |->
                                   IF b = g.head THEN g.branches[g.head] ELSE g.pushed[b]],
                   !.log = Append(g.log, [op |-> "push", arg |-> g.head])]

\* go.mod lines 184-209: createGitHubPR. GitHub refuses a second open pull
\* request of the same head, or fails otherwise
createGitHubPR(g, cfg, createOK) ==
    LET asked    == [g EXCEPT !.log = Append(g.log, [op |-> "Create", arg |-> g.head])]
        request  == addReviewers(cfg.Owners)
    IN  IF g.err # Nil THEN g
        ELSE IF g.head \in g.openPRs THEN [asked EXCEPT !.err = "PR already exists"]
        ELSE IF ~createOK THEN [asked EXCEPT !.err = "GitHub API error"]
        ELSE [asked EXCEPT
                 !.openPRs = g.openPRs \cup {g.head},
                 !.pulls = Append(g.pulls, [head |-> g.head, name |-> cfg.Name,
                                            owners |-> cfg.Owners,
                                            tree |-> g.pushed[g.head],
                                            requests |-> request]),
                 !.log = IF request = <<>> THEN asked.log
                         ELSE Append(asked.log, [op |-> "RequestReviewers", arg |-> g.head])]

\* go.mod lines 113-116: back to the base branch; a failure is only reported
checkoutBase(g) ==
    IF g.err # Nil THEN g
    ELSE IF Checkout(g, Main).err # Nil THEN g ELSE Checkout(g, Main)

\* git and GitHub as the Creator finds them
GitState ==
    [err |-> Nil, head |-> head, branches |-> branches, configs |-> configs,
     codeowners |-> RootCodeowners, pushed |-> pushed, pulls |-> pulls, log |-> log,
     openPRs |-> openPRs]

\* go.mod lines 84-119: CreatePullRequest; pushOK and createOK say whether
\* the push and the request to GitHub go through
CreatePullRequest(cfg, pushOK, createOK) ==
    LET repoName   == extractRepoName(cfg.Name)
        branchName == AddRepo \o repoName
        configFile == Join(<<Repos>>, <<repoName \o YamlExt>>)
    IN  checkoutBase(
            createGitHubPR(
                push(commitChanges(createBranch(GitState, branchName), configFile), pushOK),
                cfg, createOK))

(* The discovery Runner: state machine *)

\* the files of the working directory, all of them committed on main. Under
\* the flag defaults: no repos directory (with and without a CODEOWNERS
\* file); o/a tracked; o/b tracked by a file z.yaml beside a file x.yaml
\* that is not YAML. Under the other settings: no repos directory, or o/a
\* tracked
InitRunnerFiles ==
    /\ \E w \in WriterSettings :
          /\ reposDir = w.reposDir
          /\ codeownersFile = w.codeownersFile
          /\ \/ /\ configs = <<>>
                /\ unparsable = {}
                /\ codeowners \in { <<>>, << <<"*"," ","@","x","\n">> >> }
                /\ codeowners = <<>> => w.reposDir = <<Repos>>
             \/ /\ configs = WriteFile(<<>>, Join(reposDir, <<getFilename(RepoA)>>),
                                       [name |-> RepoA, exclude_dirs |-> <<"old/">>,
                                        exclude_files |-> <<>>])
                /\ unparsable = {}
                /\ codeowners = <<CodeownersWithEntry>>
             \/ /\ w.reposDir = <<Repos>>
                /\ configs = WriteFile(<<>>, Join(reposDir, << <<"z",".","y","a","m","l">> >>),
                                       [name |-> RepoB, exclude_dirs |-> <<>>,
                                        exclude_files |-> <<>>])
                /\ unparsable = { Join(reposDir, << <<"x",".","y","a","m","l">> >>) }
                /\ codeowners = << <<"*"," ","@","x","\n">> >>
    /\ writeCalls = <<>>
    /\ startedAbsent = (codeowners = <<>>)
    /\ allSucceeded = TRUE
    /\ written = {}

\* main before it calls NewRunner: the flags, the environment, the clone
InitRunner ==
    /\ InitNoDetector
    /\ InitRunnerFiles
    /\ DryRun \in BOOLEAN
    /\ environ \in [GITHUB_READ_TOKEN : {<<>>, <<"t">>}, GITHUB_WRITE_TOKEN : TokenSettings]
    /\ runner = <<>>
    /\ rpc = "main"
    /\ runErr = Nil
    /\ repos = <<>>
    /\ existingRepos = {}
    /\ newRepos = <<>>
    /\ repoConfigs = <<>>
    /\ idx = 1
    /\ openPRs \in { {}, {AddRepo \o <<"a">>} }
    /\ head = Main
    /\ branches = [b \in {Main} |-> [configs |-> configs, codeowners |-> RootCodeowners]]
    /\ pushed = <<>>
    /\ pulls = <<>>
    /\ log = <<>>

\* what no step of Run changes
runnerFrame == <<detectorVars, pathVars, env, parked, unparsable, DryRun, environ>>

\* what only Write changes
writerFrame == <<reposDir, codeownersFile, configs, codeowners, writeCalls,
                 startedAbsent, allSucceeded, written>>

\* what only the Creator changes
gitFrame == <<openPRs, head, branches, pushed, pulls>>

\* main.go lines 30-34: NewRunner; main exits on its error
MainNewRunner ==
    /\ rpc = "main"
    /\ runner' = NewRunner(DryRun).runner
    /\ runErr' = NewRunner(DryRun).err
    /\ rpc' = IF NewRunner(DryRun).err # Nil THEN "exit" ELSE "fetch"
    /\ UNCHANGED <<repos, existingRepos, newRepos, repoConfigs, idx, log>>
    /\ UNCHANGED <<runnerFrame, writerFrame, gitFrame>>

\* Run, step 1 (lines 89-96): fetchGoRepositories, or its error
RunFetch ==
    /\ rpc = "fetch"
    /\ \/ /\ \E listing \in Listings : repos' = GoRepositories(listing)
          /\ rpc' = "load"
          /\ UNCHANGED runErr
       \/ /\ runErr' = "failed to fetch repositories"
          /\ rpc' = "returned"
          /\ UNCHANGED repos
    /\ UNCHANGED <<runner, existingRepos, newRepos, repoConfigs, idx, log>>
    /\ UNCHANGED <<runnerFrame, writerFrame, gitFrame>>

\* Run, step 2 (lines 98-104): loadExistingRepos
RunLoadExistingRepos ==
    /\ rpc = "load"
    /\ \E readDir \in ReadDirAnswers :
          /\ existingRepos' = loadExistingRepos(readDir).existingRepos
          /\ IF loadExistingRepos(readDir).err # Nil
             THEN runErr' = "failed to load existing repos" /\ rpc' = "returned"
             ELSE runErr' = runErr /\ rpc' = "filter"
          /\ log' = Append(log, [op |-> "ReadDir", arg |-> readDir])
    /\ UNCHANGED <<runner, repos, newRepos, repoConfigs, idx>>
    /\ UNCHANGED <<runnerFrame, writerFrame, gitFrame>>

\* Run, step 3 (lines 106-118): filterNewRepositories; no new repository
\* ends the run
RunFilter ==
    /\ rpc = "filter"
    /\ newRepos' = filterNewRepositories(repos, existingRepos)
    /\ rpc' = IF Len(newRepos') = 0 THEN "returned" ELSE "analyze"
    /\ UNCHANGED <<runner, runErr, repos, existingRepos, repoConfigs, idx, log>>
    /\ UNCHANGED <<runnerFrame, writerFrame, gitFrame>>

\* lines 409-432: prAlreadyExists asks GitHub for the open pull requests of
\* the head branch; the request may fail, which reads as "no"
prAlreadyExists(repoName, listed) == listed /\ AddRepo \o repoName \in openPRs

\* Run, step 4 (lines 125-143): one pass of the loop over newRepos; the log
\* keeps the List request of prAlreadyExists and the call of DetectOwners
RunAnalyze ==
    /\ rpc = "analyze"
    /\ idx <= Len(newRepos)
    /\ \E listed \in BOOLEAN, detected \in DetectOwnersReturns(newRepos[idx]) :
          LET asked == IF DryRun THEN log
                       ELSE Append(log, [op |-> "List", arg |-> AddRepo \o newRepos[idx].name])
          IN  IF ~DryRun /\ prAlreadyExists(newRepos[idx].name, listed)
              THEN log' = asked /\ repoConfigs' = repoConfigs
              ELSE /\ log' = Append(asked, [op |-> "DetectOwners", arg |-> newRepos[idx].name])
                   /\ repoConfigs' = Append(repoConfigs,
                                            analyzeRepository(newRepos[idx], detected))
    /\ idx' = idx + 1
    /\ UNCHANGED <<runner, rpc, runErr, repos, existingRepos, newRepos>>
    /\ UNCHANGED <<runnerFrame, writerFrame, gitFrame>>

\* the loop over newRepos is over: writeConfigurations begins
RunAnalyzed ==
    /\ rpc = "analyze"
    /\ idx > Len(newRepos)
    /\ rpc' = "write"
    /\ idx' = 1
    /\ UNCHANGED <<runner, runErr, repos, existingRepos, newRepos, repoConfigs, log>>
    /\ UNCHANGED <<runnerFrame, writerFrame, gitFrame>>

\* a loop that goes on after an error of Write
RunWriteIgnoringErrors ==
    /\ rpc = "write"
    /\ idx <= Len(repoConfigs)
    /\ WriteReturns(repoConfigs[idx], DryRun)
    /\ idx' = idx + 1
    /\ UNCHANGED <<runner, rpc, runErr, repos, existingRepos, newRepos, repoConfigs, log>>
    /\ UNCHANGED <<runnerFrame, gitFrame>>

\* Run, step 5 (lines 146-149, 286-290): one pass of the loop of writeConfigurations;
\* an error of Write ends the run
RunWrite ==
    /\ rpc = "write"
    /\ idx <= Len(repoConfigs)
    /\ WriteReturns(repoConfigs[idx], DryRun)
    /\ IF writeCalls'[Len(writeCalls')].err # Nil
       THEN runErr' = "failed to write configurations" /\ rpc' = "returned" /\ idx' = idx
       ELSE runErr' = runErr /\ rpc' = rpc /\ idx' = idx + 1
    /\ UNCHANGED <<runner, repos, existingRepos, newRepos, repoConfigs, log>>
    /\ UNCHANGED <<runnerFrame, gitFrame>>

\* writeConfigurations has returned nil: Run returns in a dry run, or goes on
\* to createPullRequests (lines 151-156)
RunWritten ==
    /\ rpc = "write"
    /\ idx > Len(repoConfigs)
    /\ rpc' = IF DryRun THEN "returned" ELSE "pr"
    /\ idx' = 1
    /\ UNCHANGED <<runner, runErr, repos, existingRepos, newRepos, repoConfigs, log>>
    /\ UNCHANGED <<runnerFrame, writerFrame, gitFrame>>

\* Run, step 6 (lines 327-335): one pass of the loop of createPullRequests;
\* an error of CreatePullRequest is reported and the loop goes on
RunCreatePullRequest ==
    /\ rpc = "pr"
    /\ idx <= Len(repoConfigs)
    /\ \E pushOK, createOK \in BOOLEAN :
          \E g \in {CreatePullRequest(repoConfigs[idx], pushOK, createOK)} :
              /\ head' = g.head
              /\ branches' = g.branches
              /\ configs' = g.configs
              /\ codeowners' = IF AtRoot THEN g.codeowners ELSE codeowners
              /\ pushed' = g.pushed
              /\ pulls' = g.pulls
              /\ openPRs' = g.openPRs
              /\ log' = g.log
    /\ idx' = idx + 1
    /\ UNCHANGED <<runner, rpc, runErr, repos, existingRepos, newRepos, repoConfigs>>
    /\ UNCHANGED <<reposDir, codeownersFile, writeCalls, startedAbsent, allSucceeded, written>>
    /\ UNCHANGED runnerFrame

\* createPullRequests has returned: Run returns nil (lines 158-161)
RunReturn ==
    /\ rpc = "pr"
    /\ idx > Len(repoConfigs)
    /\ rpc' = "returned"
    /\ UNCHANGED <<runner, runErr, repos, existingRepos, newRepos, repoConfigs, idx, log>>
    /\ UNCHANGED <<runnerFrame, writerFrame, gitFrame>>

NextRunner ==
    \/ MainNewRunner
    \/ RunFetch
    \/ RunLoadExistingRepos
    \/ RunFilter
    \/ RunAnalyze
    \/ RunAnalyzed
    \/ RunWrite
    \/ RunWritten
    \/ RunCreatePullRequest
    \/ RunReturn

\* one run of the tool
SpecRunner == InitRunner /\ [][NextRunner]_vars

----------------------------------------------------------------------------
(* Vocabulary of the properties *)

Range(s) == { s[i] : i \in 1..Len(s) }

Min(a, b) == IF a <= b THEN a ELSE b

\* the running call has returned, and strategy s is the one that returned last
ProducedBy(s) ==
    pc = "done" /\ visited # <<>> /\ visited[Len(visited)].strategy = s

Failed(v) == v.err # Nil \/ v.owners = <<>>

StrategyOrder == <<"CodeownersFile", "Teams", "Collaborators", "Default">>

\* the handle the default strategy is to return, from NewDetector's argument
DefaultHandle == IF defaultOwnerArg = <<>> THEN Vanguard ELSE defaultOwnerArg

ElevatedTeam(t) == t.permission \in {"admin", "maintain"}

ElevatedCollaborator(c) == "admin" \in c.permissions \/ "maintain" \in c.permissions

\* the teams / collaborators of the response with elevated permission, in listing order
ElevatedTeams == SelectSeq(teams, ElevatedTeam)
ElevatedCollaborators == SelectSeq(collaborators, ElevatedCollaborator)

TeamRef(o, t) == <<"@">> \o o \o <<"/">> \o t.slug
UserRef(c) == <<"@">> \o c.login

\* the positions of a sequence of tokens at which a token occurs for the first time
FirstOccurrences(m) == { i \in 1..Len(m) : \A j \in 1..(i - 1) : m[j] # m[i] }

\* the k-th smallest member of a set of numbers
Nth(I, k) == CHOOSE i \in I : Cardinality({ j \in I : j < i }) = k - 1

\* the distinct tokens of m in the order of their first occurrence
Distinct(m) ==
    [k \in 1..Cardinality(FirstOccurrences(m)) |-> m[Nth(FirstOccurrences(m), k)]]

\* the extractor has run on content: alone, or inside a call that returned its owners
Extracted == pc = "tested" \/ ProducedBy("CodeownersFile")

IsIdent(s) == Len(s) > 0 /\ \A i \in 1..Len(s) : s[i] \in IdentChars

\* @identifier or @org/identifier
IsHandle(h) ==
    /\ Len(h) > 1
    /\ h[1] = "@"
    /\ \/ IsIdent(Tail(h))
       \/ \E k \in 3..(Len(h) - 1) :
             h[k] = "/" /\ IsIdent(SubSeq(h, 2, k - 1)) /\ IsIdent(SubSeq(h, k + 1, Len(h)))

----------------------------------------------------------------------------
(* Properties *)

\* C1: whatever the file fetches, ListTeams and ListCollaborators deliver or
\* fail with, DetectOwners returns a nil error and between 1 and 5 owners.
C1_NonEmptyResult ==
    pc = "done" => err = Nil /\ Len(result) >= 1 /\ Len(result) <= 5

\* a call that returned five collaborators
C1_Witness == ProducedBy("Collaborators") /\ Len(result) = 5 /\ err = Nil

\* C2: a strategy is entered only after the one before it returned an error
\* or no owner; after a file yielded a handle neither ListTeams nor
\* ListCollaborators is called, after the teams yielded a handle
\* ListCollaborators is not called.
C2_NextOnlyAfterFailure ==
    /\ \A i \in 1..Len(visited) : i > 1 => Failed(visited[i - 1])
    /\ pc \in {"TryTeams", "TryCollaborators", "UseDefault"}
          => visited # <<>> /\ Failed(visited[Len(visited)])
    /\ \A i, j \in 1..Len(calls) :
          /\ calls[i].op = "GetContents" /\ calls[i].n > 0
                => calls[j].op \notin {"ListTeams", "ListCollaborators"}
          /\ calls[i].op = "ListTeams" /\ calls[i].n > 0
                => calls[j].op # "ListCollaborators"

\* a Detector with a client returned the owners of the first file it fetched
C2_Witness ==
    /\ pc = "done" /\ client # Nil
    /\ Len(calls) = 1 /\ calls[1].op = "GetContents" /\ calls[1].n > 0

\* C3: the list returned is the output of the first strategy, in the order
\* file, teams, collaborators, default, whose output is not empty, and of that
\* strategy alone.
C3_FirstSuccessWins ==
    pc = "done" =>
        /\ \A k \in 1..Len(visited) : visited[k].strategy = StrategyOrder[k]
        /\ \E i \in 1..Len(visited) :
              /\ visited[i].owners # <<>>
              /\ \A j \in 1..(i - 1) : visited[j].owners = <<>>
              /\ result = visited[i].owners

\* a call in which file and teams gave nothing and the collaborators gave the result
C3_Witness ==
    /\ ProducedBy("Collaborators") /\ Len(visited) = 3
    /\ Len(result) = 2 /\ result = visited[3].owners

\* C4: without a client, or when every fetch and every API call fails,
\* DetectOwners returns the list holding the default handle alone, and no error.
C4_DefaultWhenNothingReachable ==
    pc = "done" /\ (client = Nil \/ \A i \in 1..Len(calls) : ~calls[i].ok)
        => result = <<DefaultHandle>> /\ err = Nil

\* a Detector with a client whose five calls all failed
C4_Witness ==
    /\ pc = "done" /\ client # Nil /\ Len(calls) = 5
    /\ \A i \in 1..Len(calls) : ~calls[i].ok
    /\ result = <<Vanguard>>

\* C5: a team whose permission is not exactly "admin" or "maintain" is not in
\* a result of the teams strategy.
C5_OnlyElevatedTeams ==
    ProducedBy("Teams") =>
        \A i \in 1..Len(teams) :
            teams[i].permission \notin {"admin", "maintain"}
                => TeamRef(org, teams[i]) \notin Range(result)

\* teams returned a result from a listing holding "Admin", "write" and "" teams
C5_Witness ==
    /\ ProducedBy("Teams")
    /\ {"Admin", "write", ""} \subseteq { teams[i].permission : i \in 1..Len(teams) }

\* C6 as claimed: every team of the listing with permission "admin" or
\* "maintain" is in the result of the teams strategy as @<organization>/<slug>,
\* in listing order.
C6_EveryElevatedTeamListed ==
    ProducedBy("Teams") =>
        /\ \A i \in 1..Len(ElevatedTeams) : TeamRef(org, ElevatedTeams[i]) \in Range(result)
        /\ \A i, j \in 1..Len(result) :
              i < j => \E a, b \in 1..Len(teams) :
                          a < b /\ result[i] = TeamRef(org, teams[a])
                                /\ result[j] = TeamRef(org, teams[b])

\* C6 amended: each of the first three teams of the listing with permission
\* "admin" or "maintain" is in the result of the teams strategy as
\* @<organization>/<slug>, at its rank among them; so every such team is,
\* when there are at most three.
C6_FirstElevatedTeamsListed ==
    ProducedBy("Teams") =>
        /\ \A i \in 1..Len(ElevatedTeams) :
              i <= 3 => i <= Len(result) /\ result[i] = TeamRef(org, ElevatedTeams[i])
        /\ Len(ElevatedTeams) <= 3 =>
              Range(result) = { TeamRef(org, ElevatedTeams[i]) : i \in 1..Len(ElevatedTeams) }

\* teams returned both elevated teams of a listing that has a "write" team between them
C6_Witness ==
    /\ ProducedBy("Teams") /\ Len(teams) = 3
    /\ teams[1].permission = "maintain" /\ teams[2].permission = "write"
    /\ teams[3].permission = "admin"
    /\ Len(result) = 2

\* C7: the teams strategy returns min(3, elevated teams) handles, the
\* collaborators strategy min(5, elevated collaborators), the extractor
\* min(5, distinct tokens), each time the earliest in source order.
C7_CapsPerStrategy ==
    /\ ProducedBy("Teams") =>
          /\ Len(result) = Min(3, Len(ElevatedTeams))
          /\ \A i \in 1..Len(result) : result[i] = TeamRef(org, ElevatedTeams[i])
    /\ ProducedBy("Collaborators") =>
          /\ Len(result) = Min(5, Len(ElevatedCollaborators))
          /\ \A i \in 1..Len(result) : result[i] = UserRef(ElevatedCollaborators[i])
    /\ Extracted =>
          /\ Len(result) = Min(5, Cardinality(Range(FindAllString(content))))
          /\ \A i \in 1..Len(result) : result[i] = Distinct(FindAllString(content))[i]

\* four elevated teams, three returned
C7_Witness == ProducedBy("Teams") /\ Len(ElevatedTeams) = 4 /\ Len(result) = 3

\* C8: the extractor returns the first five distinct tokens of the content in
\* the order of their first occurrence; no handle twice, and a token that
\* occurs again takes none of the five places.
C8_FirstFiveDistinct ==
    Extracted =>
        LET m == FindAllString(content)
            d == Distinct(m)
        IN  /\ result = SubSeq(d, 1, Min(5, Len(d)))
            /\ \A i, j \in 1..Len(result) : i # j => result[i] # result[j]
            /\ Len(m) > Len(d) /\ Len(d) >= 5 => Len(result) = 5

\* a content whose first token occurs again before five distinct ones were seen,
\* and that has a sixth
C8_Witness ==
    /\ pc = "tested"
    /\ LET m == FindAllString(content) IN
          /\ Len(m) = 7 /\ m[2] = m[1] /\ Cardinality(Range(m)) = 6
    /\ Len(result) = 5

\* C9 as claimed: a candidate path is fetched only if the fetch of every
\* earlier path failed.
C9_LaterPathOnlyAfterFetchFailures ==
    \A i, j \in 1..Len(calls) :
        j < i /\ calls[i].op = "GetContents" /\ calls[j].op = "GetContents"
            => ~calls[j].ok

\* C10 as claimed: every handle DetectOwners returns is @identifier or
\* @org/identifier, whatever default owner the Detector was built with.
C10_EveryOwnerIsAHandle ==
    pc = "done" => \A h \in Range(result) : IsHandle(h)

\* C11: a result of the collaborators strategy is the handles @login of the
\* first five collaborators of the listing whose admin or maintain flag is
\* true, in listing order; a collaborator with neither flag is not in it.
C11_FirstElevatedCollaboratorsListed ==
    ProducedBy("Collaborators") =>
        /\ Len(result) = Min(5, Len(ElevatedCollaborators))
        /\ \A k \in 1..Len(result) : result[k] = UserRef(ElevatedCollaborators[k])
        /\ \A i \in 1..Len(collaborators) :
              ~ElevatedCollaborator(collaborators[i])
                  => UserRef(collaborators[i]) \notin Range(result)

\* a listing of six that begins with a collaborator holding push alone and
\* goes on with admin and maintain holders, five of whom are returned
C11_Witness ==
    /\ ProducedBy("Collaborators")
    /\ Len(collaborators) = 6
    /\ collaborators[1].permissions = {"push"}
    /\ collaborators[2].permissions = {"maintain", "push"}
    /\ Len(result) = 5 /\ result[1] = UserRef(collaborators[2])

\* C12: the default strategy returns one handle and no error: the default
\* owner NewDetector was given, or @konflux-ci/Vanguard when that was empty.
C12_DefaultIsOneConfiguredHandle ==
    ProducedBy("Default") =>
        /\ Len(result) = 1
        /\ result[1] = IF defaultOwnerArg = <<>> THEN Vanguard ELSE defaultOwnerArg
        /\ err = Nil
        /\ visited[Len(visited)].err = Nil

\* a Detector built with an empty default owner answered with the Vanguard team
C12_Witness ==
    ProducedBy("Default") /\ defaultOwnerArg = <<>> /\ result = <<Vanguard>>

\* C13: the strategies are visited in the order file, teams, collaborators,
\* default, each after the one before it failed, none twice and none left
\* out; the call ends at the first that succeeds, the default at the latest.
C13_FixedStrategyOrder ==
    /\ Len(visited) <= 4
    /\ \A k \in 1..Len(visited) : visited[k].strategy = StrategyOrder[k]
    /\ \A k \in 1..(Len(visited) - 1) : Failed(visited[k])
    /\ pc = "TryCodeowners" => visited = <<>>
    /\ pc = "TryTeams" => Len(visited) = 1 /\ Failed(visited[1])
    /\ pc = "TryCollaborators" => Len(visited) = 2 /\ Failed(visited[2])
    /\ pc = "UseDefault" => Len(visited) = 3 /\ Failed(visited[3])
    /\ pc = "done" => visited # <<>> /\ ~Failed(visited[Len(visited)])

\* a call that went through all four strategies, the teams listing having
\* arrived without an elevated team
C13_Witness ==
    /\ pc = "done" /\ Len(visited) = 4 /\ client # Nil
    /\ \E i \in 1..Len(calls) : calls[i].op = "ListTeams" /\ calls[i].ok

\* C14: a call issues at most five requests, and no request twice: every
\* candidate path at most once, ListTeams and ListCollaborators at most once.
C14_NoRequestRepeated ==
    /\ Len(calls) <= 5
    /\ \A i, j \in 1..Len(calls) :
          i < j => <<calls[i].op, calls[i].path>> # <<calls[j].op, calls[j].path>>

\* five requests of which the first failed and a later one was answered
C14_Witness ==
    /\ pc = "done" /\ Len(calls) = 5
    /\ ~calls[1].ok /\ calls[2].ok /\ ~calls[4].ok

\* C15: once the context is cancelled every request issued fails and none is
\* issued again, the call goes on to the next strategy, and it returns the
\* default handle alone with a nil error.
C15_CancellationFallsThrough ==
    cancelledAt >= 0 =>
        /\ \A i \in (cancelledAt + 1)..Len(calls) : ~calls[i].ok
        /\ \A i, j \in 1..Len(calls) :
              i < j => <<calls[i].op, calls[i].path>> # <<calls[j].op, calls[j].path>>
        /\ \A k \in 1..Len(visited) : visited[k].strategy # "Default" => Failed(visited[k])
        /\ pc # "done" =>
              ENABLED (FetchCodeowners \/ CodeownersExhausted \/ TryTeams
                          \/ TryCollaborators \/ UseDefault)
        /\ pc = "done" => err = Nil /\ result = <<DefaultHandle>>

\* the context was cancelled after the first file had been fetched; the four
\* requests that followed failed and the call returned the default handle
C15_Witness ==
    /\ cancelledAt = 1 /\ calls[1].ok
    /\ pc = "done" /\ Len(calls) = 5 /\ Len(result) = 1

\* what the running call returns when no other call touches the Detector:
\* the owners of the first of its strategies that did not fail
RunAlone ==
    LET won == { k \in 1..Len(visited) : k <= 3 /\ ~Failed(visited[k]) }
    IN  IF won # {} THEN visited[Nth(won, 1)].owners ELSE <<DefaultHandle>>

\* C16: no step of a DetectOwners call changes the client, the default owner
\* or the candidate paths, and of two calls interleaved on one Detector each
\* returns what its own responses make it return when it runs alone.
C16_CallsDoNotInterfere ==
    [][ /\ client' = client
        /\ defaultOwner' = defaultOwner
        /\ arrays' = arrays
        /\ pc' = "done" => result' = RunAlone' ]_vars

\* one call returned the team it was given while the other, set aside after
\* its fourth request, has the collaborators still to ask
C16_Witness ==
    /\ parked # NoCall
    /\ parked[1].pc = "TryCollaborators" /\ Len(parked[1].calls) = 4
    /\ ProducedBy("Teams") /\ Len(calls) = 4

\* C17: the list GetCodeownersPaths returns is the three candidate paths in
\* their order, whatever was stored into a list it returned before, and the
\* paths DetectOwners fetches stay those three in that order.
C17_ReturnedPathsAreACopy ==
    [][ /\ arrays'[GlobalArray] = codeownersPaths
        /\ GetCodeownersPaths => arrays'[returnedRef'] = codeownersPaths
        /\ \A i \in 1..Len(calls') :
              calls'[i].op = "GetContents" => calls'[i].path = codeownersPaths[i] ]_vars

\* a call that began after the caller had overwritten its list fetched the
\* three paths all the same
C17_Witness ==
    /\ modifiedAtEntry /\ arrays[FreshArray][1] = "OWNERS"
    /\ pc = "done" /\ Len(calls) >= 3
    /\ calls[3].op = "GetContents" /\ calls[3].path = "docs/CODEOWNERS"

\* the last Write call
LastWrite == writeCalls[Len(writeCalls)]

\* <repo>.yaml for a name <org>/<repo>
RepoFile(name) ==
    LET slash == CHOOSE i \in 1..Len(name) : name[i] = "/"
    IN  SubSeq(name, slash + 1, Len(name)) \o <<".","y","a","m","l">>

\* the lines of the CODEOWNERS file
CodeownersLines == IF codeowners = <<>> THEN <<>> ELSE Split(codeowners[1], "\n")

\* C18: after Write(cfg, false) returned nil, <reposDir>/<repo>.yaml exists,
\* LoadRepositoryConfig returns cfg's Name, ExcludeDirs and ExcludeFiles from
\* it, and a line of CODEOWNERS is "/repos/<repo>.yaml ", then cfg's
\* normalized owners with one space between them.
C18_WrittenConfigLoadsBack ==
    writeCalls # <<>> /\ ~LastWrite.dryRun /\ LastWrite.err = Nil =>
        LET cfg    == LastWrite.cfg
            loaded == LoadRepositoryConfig(reposDir, RepoFile(cfg.Name))
        IN  /\ Clean(reposDir) \o <<RepoFile(cfg.Name)>> \in DOMAIN configs
            /\ loaded.err = Nil
            /\ loaded.cfg.Name = cfg.Name
            /\ loaded.cfg.ExcludeDirs = cfg.ExcludeDirs
            /\ loaded.cfg.ExcludeFiles = cfg.ExcludeFiles
            /\ \E i \in 1..Len(CodeownersLines) :
                  CodeownersLines[i] =
                      <<"/","r","e","p","o","s","/">> \o RepoFile(cfg.Name) \o <<" ">>
                          \o JoinStrings(normalizeOwners(cfg.Owners), <<" ">>)

\* a configuration with excluded directories and files was written over the
\* file of another organization's repository of the same name, into a
\* CODEOWNERS file that existed before
C18_Witness ==
    /\ Len(writeCalls) = 2 /\ ~LastWrite.dryRun /\ LastWrite.err = Nil
    /\ LastWrite.cfg.Name[1] = "p" /\ LastWrite.cfg.ExcludeDirs # <<>>
    /\ ~writeCalls[1].dryRun /\ writeCalls[1].err = Nil /\ writeCalls[1].cfg.Name[1] = "o"
    /\ RepoFile(writeCalls[1].cfg.Name) = RepoFile(LastWrite.cfg.Name)
    /\ ~startedAbsent

\* the directory discovered-repos beside the directory dir
Beside(dir) ==
    Append(SubSeq(Clean(dir), 1, Len(Clean(dir)) - 1),
           <<"d","i","s","c","o","v","e","r","e","d","-","r","e","p","o","s">>)

\* C19 as claimed: a dry run that returns nil writes discovered-repos/<repo>.yaml
\* beside the repos directory, and no dry run changes CODEOWNERS or creates
\* or changes a file under the repos directory.
C19_DryRunWritesOnlyBesideRepos ==
    [][ writeCalls' # writeCalls /\ writeCalls'[Len(writeCalls')].dryRun =>
          /\ codeowners' = codeowners
          /\ \A path \in DOMAIN configs' :
                Under(path, reposDir)
                    => path \in DOMAIN configs /\ configs'[path] = configs[path]
          /\ writeCalls'[Len(writeCalls')].err = Nil =>
                Beside(reposDir) \o <<RepoFile(writeCalls'[Len(writeCalls')].cfg.Name)>>
                    \in DOMAIN configs' ]_vars

\* the lines of CODEOWNERS that begin with /repos/<file>
EntriesOf(file) ==
    { i \in 1..Len(CodeownersLines) :
          HasPrefix(CodeownersLines[i], <<"/","r","e","p","o","s","/">> \o file) }

\* C20: a Write(cfg, false) that follows a Write(cfg, false) with the same
\* cfg leaves CODEOWNERS as the first left it; and when there was no
\* CODEOWNERS file at first and every Write returned nil, CODEOWNERS has one
\* line that begins with /repos/<repo>.yaml for every file Write(cfg, false) wrote.
C20_IdempotentOnCodeowners ==
    /\ \A i \in 2..Len(writeCalls) :
          /\ writeCalls[i].cfg = writeCalls[i - 1].cfg
          /\ ~writeCalls[i].dryRun /\ ~writeCalls[i - 1].dryRun
          => writeCalls[i].codeowners = writeCalls[i - 1].codeowners
    /\ startedAbsent /\ allSucceeded =>
          \A file \in written : Cardinality(EntriesOf(file)) = 1

\* no CODEOWNERS file at first; the same configuration written twice, its
\* owners trimmed, prefixed and deduplicated, left one entry
C20_Witness ==
    /\ startedAbsent /\ allSucceeded /\ Len(writeCalls) = 2
    /\ writeCalls[1].cfg = writeCalls[2].cfg
    /\ ~writeCalls[1].dryRun /\ ~writeCalls[2].dryRun
    /\ Len(writeCalls[2].cfg.Owners) = 3
    /\ Cardinality(written) = 1 /\ Len(CodeownersLines) = 2

Letters ==
    {"a","b","c","d","e","f","g","h","i","j","k","l","m","n","o","p","q","r","s","t",
     "u","v","w","x","y","z",
     "A","B","C","D","E","F","G","H","I","J","K","L","M","N","O","P","Q","R","S","T",
     "U","V","W","X","Y","Z"}

Digits == {"0","1","2","3","4","5","6","7","8","9"}

\* name is <org>/<repo>: one slash, something on both sides of it, and
\* nothing but letters, digits, underscores and hyphens apart from it
WellFormed(name) ==
    \E s \in 2..(Len(name) - 1) :
        /\ name[s] = "/"
        /\ \A i \in (1..Len(name)) \ {s} : name[i] \in Letters \cup Digits \cup {"_", "-"}

\* the errors Write returns for a name
NameErrors == {"repository name cannot be empty", "invalid repository name"}

\* C21: Write returns an error about the name for every repository name that
\* is not <org>/<repo> with both parts non-empty and made of letters, digits,
\* underscores and hyphens, and for no name of that form.
C21_NameValidation ==
    writeCalls # <<>> => (LastWrite.err \in NameErrors <=> ~WellFormed(LastWrite.cfg.Name))

\* Write was called with the name "a/.." and returned an error
C21_Witness ==
    /\ writeCalls # <<>> /\ LastWrite.cfg.Name = <<"a","/",".",".">>
    /\ LastWrite.err = "invalid repository name"

\* every owner of the list is blank once trimmed
AllBlank(owners) == \A i \in 1..Len(owners) : TrimSpace(owners[i]) = <<>>

\* C22: Write(cfg, false) returns an error when cfg.Owners is empty ("no
\* owners specified" for a name that is valid) or has only blank owners, and
\* leaves the CODEOWNERS file as it was.
C22_NoOwnersIsAnError ==
    [][ /\ writeCalls' # writeCalls
        /\ ~writeCalls'[Len(writeCalls')].dryRun
        /\ AllBlank(writeCalls'[Len(writeCalls')].cfg.Owners)
        => /\ writeCalls'[Len(writeCalls')].err # Nil
           /\ codeowners' = codeowners
           /\ ( /\ writeCalls'[Len(writeCalls')].cfg.Owners = <<>>
                /\ WellFormed(writeCalls'[Len(writeCalls')].cfg.Name)
                => writeCalls'[Len(writeCalls')].err
                       = "failed to update CODEOWNERS: no owners specified" ) ]_vars

\* Write(cfg, false) was called with two blank owners on a CODEOWNERS file
\* that has an entry, returned an error and left the file alone
C22_Witness ==
    /\ writeCalls # <<>> /\ ~LastWrite.dryRun
    /\ LastWrite.cfg.Owners = << <<" ">>, <<>> >>
    /\ LastWrite.err # Nil
    /\ codeowners = <<CodeownersWithEntry>>

\* the handle of an owner that is not blank: trimmed, with "@" in front
HandleOf(owner) ==
    IF TrimSpace(owner)[1] = "@" THEN TrimSpace(owner) ELSE <<"@">> \o TrimSpace(owner)

\* the handles of the owners that are not blank, each once, in the order of
\* their first occurrences
Normalized(owners) ==
    LET kept == SelectSeq(owners, LAMBDA o : TrimSpace(o) # <<>>)
    IN  Distinct([i \in 1..Len(kept) |-> HandleOf(kept[i])])

\* C23: the owners of the entry Write(cfg, false) leaves in CODEOWNERS are
\* cfg.Owners trimmed, without the blank ones, with "@" in front, each once,
\* in the order of their first occurrences; and normalizeOwners changes
\* nothing in a list it returned.
C23_EntryHasNormalizedOwners ==
    writeCalls # <<>> =>
        /\ normalizeOwners(normalizeOwners(LastWrite.cfg.Owners))
               = normalizeOwners(LastWrite.cfg.Owners)
        /\ ~LastWrite.dryRun /\ LastWrite.err = Nil =>
              \E i \in 1..Len(CodeownersLines) :
                  CodeownersLines[i] =
                      <<"/","r","e","p","o","s","/">> \o RepoFile(LastWrite.cfg.Name) \o <<" ">>
                          \o JoinStrings(Normalized(LastWrite.cfg.Owners), <<" ">>)

\* Write(cfg, false) returned nil for the owners " t ", "\t@u", "@t": the
\* entry has @t and @u
C23_Witness ==
    /\ writeCalls # <<>> /\ ~LastWrite.dryRun /\ LastWrite.err = Nil
    /\ LastWrite.cfg.Owners = << <<" ","t"," ">>, <<"\t","@","u">>, <<"@","t">> >>
    /\ Normalized(LastWrite.cfg.Owners) = << <<"@","t">>, <<"@","u">> >>

\* the requests for a file among the first n requests
FetchesUpTo(n) == { i \in 1..n : calls[i].op = "GetContents" }

\* C30: the k-th file DetectOwners fetches is the k-th of .github/CODEOWNERS,
\* CODEOWNERS, docs/CODEOWNERS; no file is fetched after one that yielded a
\* handle; and the handles the file strategy returns are those of the last
\* file fetched.
C30_PathsInPriorityOrder ==
    /\ \A i \in FetchesUpTo(Len(calls)) :
          /\ Cardinality(FetchesUpTo(i)) <= 3
          /\ calls[i].path =
                 <<".github/CODEOWNERS", "CODEOWNERS", "docs/CODEOWNERS">>[Cardinality(FetchesUpTo(i))]
          /\ calls[i].n > 0 => \A j \in FetchesUpTo(Len(calls)) : j <= i
    /\ pc = "done" /\ ProducedBy("CodeownersFile") =>
          \E i \in FetchesUpTo(Len(calls)) :
              /\ \A j \in FetchesUpTo(Len(calls)) : j <= i
              /\ calls[i].ok /\ calls[i].n = Len(result)
              /\ result = extractOwnersFromCodeowners(content)

\* .github/CODEOWNERS could not be fetched, CODEOWNERS yielded handles and
\* they were returned; docs/CODEOWNERS was not asked for
C30_Witness ==
    /\ pc = "done" /\ ProducedBy("CodeownersFile")
    /\ Len(calls) = 2 /\ ~calls[1].ok /\ calls[2].path = "CODEOWNERS" /\ calls[2].n > 0

\* C24 as claimed: NewRunner returns the error "GITHUB_WRITE_TOKEN is required
\* ..." and no Runner exactly when DryRun is false and GITHUB_WRITE_TOKEN is
\* not set; with DryRun it returns a Runner, whatever the tokens.
C24_ErrorExactlyWhenTokenUnset ==
    rpc # "main" =>
        /\ (rpc = "exit" /\ runner = <<>>
               /\ runErr = "GITHUB_WRITE_TOKEN is required for --apply (needed for creating PRs)")
           <=> (~DryRun /\ environ.GITHUB_WRITE_TOKEN = <<>>)
        /\ DryRun => runner # <<>>

\* C24 amended: NewRunner returns the error "GITHUB_WRITE_TOKEN is required
\* ..." and no Runner exactly when DryRun is false and GITHUB_WRITE_TOKEN is
\* not set or is set to the empty string; with DryRun it returns a Runner
\* with a read client and a write client, whatever the tokens.
C24_ErrorExactlyWhenTokenEmpty ==
    rpc # "main" =>
        /\ (rpc = "exit" /\ runner = <<>>
               /\ runErr = "GITHUB_WRITE_TOKEN is required for --apply (needed for creating PRs)")
           <=> (~DryRun /\ environ.GITHUB_WRITE_TOKEN \in {<<>>, <<"">>})
        /\ DryRun => /\ runner # <<>>
                     /\ runner[1].githubClient \in {"authenticated", "anonymous"}
                     /\ runner[1].writeClient \in {"authenticated", "anonymous"}

\* --apply with GITHUB_WRITE_TOKEN set to the empty string: NewRunner
\* returned its error
C24_Witness ==
    /\ rpc = "exit" /\ ~DryRun /\ environ.GITHUB_WRITE_TOKEN = <<"">> /\ runner = <<>>

\* Run has got through its step 3
Filtered ==
    /\ rpc \in {"analyze", "write", "pr", "returned"}
    /\ runErr \notin {"failed to fetch repositories", "failed to load existing repos"}

\* the indices of the fetched repositories that are not tracked
Untracked ==
    { i \in 1..Len(repos) : <<"o", "/">> \o repos[i].name \notin existingRepos }

\* C25: the repositories filterNewRepositories returns are the fetched ones
\* whose <organization>/<name> is not tracked, each once, in the order of the
\* fetch.
C25_NewAreTheUntracked ==
    Filtered =>
        /\ Len(newRepos) = Cardinality(Untracked)
        /\ \A k \in 1..Len(newRepos) : newRepos[k] = repos[Nth(Untracked, k)]

\* three repositories fetched, the one in the middle tracked: the first and
\* the last were kept
C25_Witness ==
    /\ Filtered /\ Len(repos) = 3 /\ Untracked = {1, 3}
    /\ newRepos = <<repos[1], repos[3]>>

\* the answers of os.ReadDir in the log
ReadDirAnswered == { log[i].arg : i \in { j \in 1..Len(log) : log[j].op = "ReadDir" } }

\* the files right in the repos directory that are YAML
ParsedFiles ==
    { path \in DOMAIN configs :
          /\ path \notin unparsable
          /\ Len(path) = Len(Clean(reposDir)) + 1
          /\ SubSeq(path, 1, Len(path) - 1) = Clean(reposDir) }

\* C26: loadExistingRepos fails only when os.ReadDir failed for another
\* reason than a missing directory; for a missing directory the tracked set
\* is empty; else it is the names in the files of the directory that parse,
\* whether or not other files do not.
C26_UnparsableAndMissingTolerated ==
    /\ runErr = "failed to load existing repos" => ReadDirAnswered = {"denied"}
    /\ rpc = "filter" =>
          /\ ReadDirAnswered \subseteq {"ok", "not exist"}
          /\ "not exist" \in ReadDirAnswered => existingRepos = {}
          /\ "ok" \in ReadDirAnswered =>
                existingRepos = { configs[path].name : path \in ParsedFiles }

\* a directory with a file that is not YAML and a file that names o/b: the
\* load went through and o/b is tracked
C26_Witness ==
    /\ rpc = "filter" /\ unparsable # {} /\ existingRepos = {<<"o","/","b">>}

LinesOf(file) == IF file = <<>> THEN <<>> ELSE Split(file[1], "\n")

\* the CODEOWNERS file has an entry for <repo>.yaml
HasEntry(file, name) ==
    \E i \in 1..Len(LinesOf(file)) :
        HasPrefix(LinesOf(file)[i], <<"/","r","e","p","o","s","/">> \o RepoFile(name) \o <<" ">>)

\* C28 as claimed: the commit of every pull request of an --apply run has
\* repos/<repo>.yaml and the CODEOWNERS entry of its repository, and neither
\* the configuration file nor the CODEOWNERS entry of another repository the
\* run processed.
C28_CommitHoldsItsRepositoryOnly ==
    \A k \in 1..Len(pulls) :
        /\ <<Repos, RepoFile(pulls[k].name)>> \in DOMAIN pulls[k].tree.configs
        /\ HasEntry(pulls[k].tree.codeowners, pulls[k].name)
        /\ \A j \in 1..Len(repoConfigs) :
              repoConfigs[j].Name # pulls[k].name =>
                  /\ <<Repos, RepoFile(repoConfigs[j].Name)>> \notin DOMAIN pulls[k].tree.configs
                  /\ ~HasEntry(pulls[k].tree.codeowners, repoConfigs[j].Name)

\* the handles of the teams and of the users among the owners, in order
TeamHandles(owners) ==
    SelectSeq(owners, LAMBDA h : \E i \in 1..Len(h) : h[i] = "/")
UserHandles(owners) ==
    SelectSeq(owners, LAMBDA h : \A i \in 1..Len(h) : h[i] # "/")

\* what follows the slash of a team handle
SlugOf(h) ==
    LET slash == CHOOSE i \in 1..Len(h) : h[i] = "/" IN SubSeq(h, slash + 1, Len(h))

\* C29: for every pull request created there is one request for reviewers;
\* its team reviewers are the slugs of the owners with a slash, its reviewers
\* the other owners without their "@", both in the order of Owners, so every
\* owner is asked for once.
C29_EveryOwnerRequestedOnce ==
    \A k \in 1..Len(pulls) :
        /\ Len(pulls[k].requests) = 1
        /\ Cardinality({ i \in 1..Len(log) :
                            log[i] = [op |-> "RequestReviewers", arg |-> pulls[k].head] }) = 1
        /\ pulls[k].requests[1].TeamReviewers =
               [i \in 1..Len(TeamHandles(pulls[k].owners)) |->
                    SlugOf(TeamHandles(pulls[k].owners)[i])]
        /\ pulls[k].requests[1].Reviewers =
               [i \in 1..Len(UserHandles(pulls[k].owners)) |->
                    Tail(UserHandles(pulls[k].owners)[i])]
        /\ Len(pulls[k].requests[1].TeamReviewers) + Len(pulls[k].requests[1].Reviewers)
               = Len(pulls[k].owners)

\* a pull request for owners @u, @o/t, @v: reviewers u and v, team reviewer t
C29_Witness ==
    \E k \in 1..Len(pulls) :
        /\ pulls[k].owners = << <<"@","u">>, <<"@","o","/","t">>, <<"@","v">> >>
        /\ pulls[k].requests[1].Reviewers = << <<"u">>, <<"v">> >>
        /\ pulls[k].requests[1].TeamReviewers = << <<"t">> >>

\* the heads of the pull requests that were open when the run began
OpenBefore == openPRs \ { pulls[i].head : i \in 1..Len(pulls) }

\* what the entries of the log for an operation were about
Logged(op) == { log[i].arg : i \in { j \in 1..Len(log) : log[j].op = op } }

\* C31: in apply mode a new repository whose pull request add-repo/<repo>
\* was open before the run is passed over: DetectOwners is not called for
\* it, Write is not called for it, and its branch is neither created nor
\* pushed
C31_OpenPullRequestIsPassedOver ==
    ~DryRun =>
        \A i \in 1..Len(newRepos) :
            AddRepo \o newRepos[i].name \in OpenBefore =>
                /\ newRepos[i].name \notin Logged("DetectOwners")
                /\ \A k \in 1..Len(writeCalls) : writeCalls[k].cfg.Name # FullName(newRepos[i])
                /\ AddRepo \o newRepos[i].name \notin Logged("checkout -b") \cup Logged("push")

\* the full names of the organization's repositories in Go that are not
\* archived
Eligible == { FullName(repo) : repo \in { r \in RepoPool : r.language = "Go" /\ ~r.archived } }

\* C32: every repository a configuration is written for or a pull request
\* is opened for is a Go repository of the organization that is not
\* archived and was not in the tracked set loaded at the start of the run
C32_OnlyNewGoRepositories ==
    /\ \A k \in 1..Len(writeCalls) : writeCalls[k].cfg.Name \in Eligible \ existingRepos
    /\ \A k \in 1..Len(pulls) : pulls[k].name \in Eligible \ existingRepos

\* a is listed and tracked; b got its configuration and its pull request
C32_Witness ==
    /\ rpc = "returned"
    /\ existingRepos = {RepoA}
    /\ Len(repos) = 2 /\ repos[1].name = <<"a">>
    /\ Len(writeCalls) = 1 /\ writeCalls[1].cfg.Name = RepoB
    /\ Len(pulls) = 1 /\ pulls[1].name = RepoB

\* the Creator has been at work: a git command of its, or a pull request
CreatorAtWork ==
    Logged("checkout -b") \cup Logged("add") \cup Logged("push") \cup Logged("Create") # {}
        \/ pulls # <<>>

\* C33: the creation of pull requests begins only when Write has returned
\* nil for every configuration of the run, one call each in order; once a
\* Write has failed the run has returned an error and the Creator has done
\* nothing
C33_PullRequestsOnlyAfterAllWritten ==
    /\ (rpc = "pr" \/ CreatorAtWork) =>
           /\ Len(writeCalls) = Len(repoConfigs)
           /\ \A k \in 1..Len(writeCalls) :
                  writeCalls[k].cfg = repoConfigs[k] /\ writeCalls[k].err = Nil
    /\ (\E k \in 1..Len(writeCalls) : writeCalls[k].err # Nil) =>
           /\ rpc = "returned"
           /\ runErr = "failed to write configurations"
           /\ ~CreatorAtWork

\* an apply run that wrote the configuration of a and then failed on f.g
C33_Witness ==
    /\ ~DryRun
    /\ Len(writeCalls) = 2
    /\ writeCalls[1].err = Nil /\ writeCalls[1].cfg.Name = RepoA
    /\ writeCalls[2].err = "invalid repository name"
    /\ Len(repoConfigs) = 3
    /\ rpc = "returned" /\ runErr # Nil /\ pulls = <<>>

\* the branches created so far, in the order of their creation
Attempts ==
    LET made == SelectSeq(log, LAMBDA e : e.op = "checkout -b")
    IN  [k \in 1..Len(made) |-> made[k].arg]

C35_WriteGetsOwners ==
    \A k \in 1..Len(writeCalls) :
        /\ Len(writeCalls[k].cfg.Owners) >= 1
        /\ writeCalls[k].err # "failed to update CODEOWNERS: no owners specified"

\* DetectOwners was called for a, the default owner stands in the
\* configuration, and Write updated CODEOWNERS with it
C35_Witness ==
    /\ ~DryRun
    /\ <<"a">> \in Logged("DetectOwners")
    /\ Len(writeCalls) >= 1
    /\ writeCalls[1].cfg.Name = RepoA
    /\ writeCalls[1].cfg.Owners = <<Vanguard>>
    /\ writeCalls[1].err = Nil

\* C36: a Write that returns an error leaves every configuration file and
\* the CODEOWNERS file as they were before the call
C36_ErrorLeavesFilesAsTheyWere ==
    [][ (Len(writeCalls') = Len(writeCalls) + 1 /\ writeCalls'[Len(writeCalls')].err # Nil)
            => configs' = configs /\ codeowners' = codeowners ]_vars

\* the pairs of paths handed to git add so far, in order
Staged ==
    LET adds == SelectSeq(log, LAMBDA e : e.op = "add")
    IN  [k \in 1..Len(adds) |-> adds[k].arg]

\* C37: the two paths the Creator stages for a configuration are the path
\* Write stored the configuration at and the path of the CODEOWNERS file
\* Write updated
C37_StagedAreTheWrittenFiles ==
    \A k \in 1..Len(Staged) :
        Staged[k] = << TargetPath(reposDir, getFilename(repoConfigs[k].Name), FALSE),
                       Clean(codeownersFile) >>

====
